---- MODULE Spec2Model ----
(***************************************************************************)
(* Model of src/generate_dashboard.py (pi-dashboard): the data aggregation *)
(* pipeline of DashboardGenerator, its calendar cache, the agenda          *)
(* bucketer and the sun-arc computation.                                   *)
(*                                                                         *)
(* The module holds several state machines over one set of variables, one  *)
(* specification each:                                                     *)
(*   SpecSun     DashboardGenerator._calculate_sun_position                *)
(*   SpecCache   _save_calendar_cache / _load_calendar_cache               *)
(*   SpecCal     DashboardGenerator.fetch_calendar_events over time        *)
(*   SpecAgenda  DashboardGenerator.fetch_agenda_events                    *)
(*   Spec        DashboardGenerator.generate_dashboard, one cycle          *)
(*   SpecCalc    the pure computations: wind conversion, mock UV index,    *)
(*               mock air quality, grading priority, traffic status,       *)
(*               month grid                                                *)
(*   SpecTraffic MapboxService.get_travel_times and its cache over time    *)
(*   SpecLoop    main in loop mode: cycles, waits and termination signals  *)
(*   SpecWeek    DashboardGenerator.fetch_week_calendar_events             *)
(* A specification leaves the variables of the other machines unchanged.   *)
(***************************************************************************)
EXTENDS Integers, Sequences, FiniteSets, TLC

VARIABLES
    weather,         \* the weather record handed to _calculate_sun_position
    current_time,    \* now.hour * 60 + now.minute
    sun_position,    \* last value returned by _calculate_sun_position
    prev_time,       \* current_time of the call before the last one
    prev_position,   \* value returned by the call before the last one
    clock,           \* datetime.now(), in hours
    cache_file,      \* logs/calendar_cache.json
    loaded,          \* value returned by the last _load_calendar_cache
    last_save,       \* arguments and outcome of the last _save_calendar_cache
    config,          \* DashboardGenerator.config, test_mode and the services
    events,          \* value returned by the last fetch_calendar_events
    cal_responses,   \* the calendar API's answers to the last fetch
    cache_before,    \* cache_file when the last fetch started
    agenda_events,   \* value returned by the last fetch_agenda_events
    agenda_responses,\* the calendar API's answers to the last agenda fetch
    pc,              \* position of generate_dashboard in its sequence of steps
    template_data,   \* per source section, what generate_dashboard holds for it
    last,            \* the fetch step executed last and how it ended
    net_calls,       \* sources whose fetch issued a network request this cycle
    cycle_result,    \* how generate_dashboard ended
    call,            \* the computation called and its arguments
    result,          \* whether it has returned, and the value returned
    traffic_now,     \* datetime.now() seen by MapboxService, in seconds
    cache_time,      \* MapboxService._cache_time
    mapbox_cache,    \* MapboxService._cache
    travel_call,     \* the last get_travel_times call and how it was answered
    loop_pc,         \* position of main's loop
    loop_step,       \* steps of generate_dashboard completed in this cycle
    cycles,          \* generation cycles started
    args_interval,   \* args.interval
    success,         \* value returned by the last generate_dashboard
    wait,            \* argument of the time.sleep in progress
    signalled,       \* a SIGTERM or SIGINT has been delivered
    stopped_in,      \* loop_pc when the signal was delivered
    exit_status      \* status passed to sys.exit

sunVars == <<weather, current_time, sun_position, prev_time, prev_position>>

cacheVars == <<clock, cache_file, loaded, last_save>>

calVars == <<config, events, cal_responses, cache_before>>

agendaVars == <<agenda_events, agenda_responses>>

cycleVars == <<pc, template_data, last, net_calls, cycle_result>>

callVars == <<call, result>>

\* The variables of the machines added after the generation cycle.
trafficVars == <<traffic_now, cache_time, mapbox_cache, travel_call>>

loopVars ==
    <<loop_pc, loop_step, cycles, args_interval, success, wait, signalled,
      stopped_in, exit_status>>

moreVars == <<callVars, trafficVars, loopVars>>

vars == <<sunVars, cacheVars, calVars, agendaVars, cycleVars, moreVars>>

\* What each machine leaves alone.
sunOthers == <<cacheVars, calVars, agendaVars, cycleVars, moreVars>>

cacheOthers == <<sunVars, calVars, agendaVars, cycleVars, moreVars>>

calOthers == <<sunVars, agendaVars, cycleVars, moreVars>>

agendaOthers ==
    <<sunVars, cacheVars, events, cal_responses, cache_before, cycleVars,
      moreVars>>

firstVars == <<sunVars, cacheVars, calVars, agendaVars, cycleVars>>

callOthers == <<firstVars, trafficVars, loopVars>>

trafficOthers == <<firstVars, callVars, loopVars>>

loopOthers == <<firstVars, callVars, trafficVars>>

\* ------------------------------------------------------------------------
\* Bounds
\* ------------------------------------------------------------------------
MinuteStep == 90

\* The clock advances in steps of ClockStep hours up to MaxClock.
ClockStep == 12

MaxClock == 48

\* Longest event list handed to _save_calendar_cache.
MaxCacheEvents == 1

\* calendar.max_events_per_calendar and calendar.max_events_total of the
\* configuration (5 and 15 by default), scaled down.
MaxEventsPerCalendar == 1

MaxEventsTotal == 1

\* Most events the first calendar answers to an agenda query.
MaxAgendaEvents == 2

\* Largest wind speed the provider reports, in tenths of a unit.
MaxWindTenths == 60

\* A grading-queue item is due between MaxOverdueHours before now and
\* MaxDueHours after now.
MaxOverdueHours == 30

MaxDueHours == 100

\* Longest travel duration the routing matrix answers, in half minutes.
MaxHalfMinutes == 70

\* The clock of the traffic cache runs for MaxTrafficDays days and a
\* quarter of an hour.
MaxTrafficDays == 1

\* Generation cycles started in loop mode.
MaxCycles == 3

\* The month grid is built for the months of GridYears years from 2024 on.
GridYears == 2

\* Most events the first calendar answers to a week query.
MaxWeekEvents == 1

\* Entries of a forecast answer explored in every combination, and the days
\* a longer answer with one entry per day covers.
MaxForecastEntries == 3

MaxForecastDays == 7

\* Most assignments the first course answers, and canvas.max_assignments.
MaxCourseAssignments == 2

MaxAssignments == 2

\* Most items the first course answers for the grading queue, and
\* canvas.max_grading_items.
MaxCourseGradingItems == 2

MaxGradingItems == 2

\* canvas.max_at_risk_students.
MaxAtRiskStudents == 1

\* ------------------------------------------------------------------------
\* Generic helpers
\* ------------------------------------------------------------------------
Max(a, b) == IF a >= b THEN a ELSE b

Min(a, b) == IF a <= b THEN a ELSE b

NoValue == -1

\* ------------------------------------------------------------------------
\* DashboardGenerator._calculate_sun_position
\* ------------------------------------------------------------------------
MinutesPerDay == 1440

\* Minutes of the day used as inputs: a regular grid plus the minutes around
\* a 06:00 sunrise at which the float product (e/d)*100 falls just below an
\* integer.
BoundaryMinutes == {360, 389, 417, 418, 460}

SampleMinutes ==
    {m \in 0..(MinutesPerDay - 1) : m % MinuteStep = 0} \cup BoundaryMinutes

NoWeather == [has_sun |-> FALSE, sunrise |-> 0, sunset |-> 0]

SunWeathers ==
    {NoWeather} \cup
    [has_sun : {TRUE}, sunrise : SampleMinutes, sunset : SampleMinutes]

\* int((elapsed / duration) * 100) in IEEE double arithmetic.  For every
\* 0 <= elapsed <= duration < 1440 the result equals the exact floor except
\* when elapsed/duration is exactly 0.29, 0.57 or 0.58, where the product is
\* just below the integer and int() truncates to one less.
float_percent(elapsed, duration) ==
    IF 100 * elapsed \in {29 * duration, 57 * duration, 58 * duration}
    THEN ((100 * elapsed) \div duration) - 1
    ELSE (100 * elapsed) \div duration

calculate_sun_position_descending(w, t) ==
    IF w.has_sun
    THEN IF t < w.sunrise THEN 0
         ELSE IF t > w.sunset THEN 100
         ELSE IF w.sunset = w.sunrise THEN 35
         ELSE Max(5, Min(95, float_percent(w.sunset - t, w.sunset - w.sunrise)))
    ELSE IF 6 <= t \div 60 /\ t \div 60 <= 20
         THEN (100 * ((t \div 60) - 6)) \div 14
         ELSE IF t \div 60 < 6 THEN 0 ELSE 100

calculate_sun_position_inclusive(w, t) ==
    IF w.has_sun
    THEN IF t <= w.sunrise THEN 0
         ELSE IF t >= w.sunset THEN 100
         ELSE IF w.sunset = w.sunrise THEN 35
         ELSE Max(5, Min(95, float_percent(t - w.sunrise, w.sunset - w.sunrise)))
    ELSE IF 6 <= t \div 60 /\ t \div 60 <= 20
         THEN (100 * ((t \div 60) - 6)) \div 14
         ELSE IF t \div 60 < 6 THEN 0 ELSE 100

\* w: weather (has_sun = 'sunrise' and 'sunset' present), t: current_time.
\* sunrise = sunset = t divides by zero; the except branch returns 35.
calculate_sun_position(w, t) ==
    IF w.has_sun
    THEN IF t < w.sunrise THEN 0
         ELSE IF t > w.sunset THEN 100
         ELSE IF w.sunset = w.sunrise THEN 35
         ELSE Max(5, Min(95, float_percent(t - w.sunrise, w.sunset - w.sunrise)))
    ELSE IF 6 <= t \div 60 /\ t \div 60 <= 20
         THEN (100 * ((t \div 60) - 6)) \div 14
         ELSE IF t \div 60 < 6 THEN 0 ELSE 100

\* ------------------------------------------------------------------------
\* Calendar cache: DashboardGenerator._save_calendar_cache and
\* DashboardGenerator._load_calendar_cache
\* ------------------------------------------------------------------------
AllDay == -1

CacheMaxAgeHours == 24

\* A formatted event as GoogleCalendarService.get_events builds it: start is
\* the '%H:%M' time of day in minutes, or AllDay.
FormattedEvents == [summary : 1..2, start : {AllDay, 540}, calendar_id : 1..2]

SeqsUpTo(S, n) == UNION {[1..k -> S] : k \in 0..n}

\* The file logs/calendar_cache.json: absent, unreadable (not a JSON
\* document), or the document {timestamp, events}.
NoFile == [state |-> "absent", timestamp |-> 0, events |-> <<>>]

UnreadableFile == [state |-> "unreadable", timestamp |-> 0, events |-> <<>>]

\* json.dump of {'timestamp': now.isoformat(), 'events': events}
json_document(now, evs) == [state |-> "json", timestamp |-> now, events |-> evs]

\* Outcome of open(cache_file, 'w') and json.dump: both succeed, open raises
\* (the file is left as it was), or the write raises after open truncated
\* the file.
IoOutcomes == {"ok", "open_fails", "write_fails"}

save_calendar_cache(file, evs, now, io) ==
    IF io = "open_fails" THEN file
    ELSE IF io = "write_fails" THEN UnreadableFile
    ELSE json_document(now, evs)

load_calendar_cache_strict_age(file, now) ==
    IF file.state = "absent" THEN <<>>
    ELSE IF file.state = "unreadable" THEN <<>>
    ELSE IF now - file.timestamp >= CacheMaxAgeHours THEN <<>>
    ELSE file.events

\* Returns [] when the file does not exist, when reading or parsing raises,
\* and when now - timestamp > 24 hours.
load_calendar_cache(file, now) ==
    IF file.state = "absent" THEN <<>>
    ELSE IF file.state = "unreadable" THEN <<>>
    ELSE IF now - file.timestamp > CacheMaxAgeHours THEN <<>>
    ELSE file.events

\* ------------------------------------------------------------------------
\* Configuration: DashboardGenerator.__init__, _load_config and main
\* ------------------------------------------------------------------------
\* One entry of calendar.calendars.  is_dict is FALSE for an entry that is
\* not an object (its .get raises AttributeError).
CalInfos == [id : 1..2, enabled : BOOLEAN, is_dict : BOOLEAN]

ConfigFields ==
    [test_mode        : BOOLEAN,   \* generator.test_mode = args.test
     weather_api_key  : BOOLEAN,   \* config['weather']['api_key'] is set
     rss_feeds        : BOOLEAN,   \* config['rss_feeds'] is non-empty
     use_mock_data    : BOOLEAN,   \* config['calendar']['use_mock_data']
     calendar_service : BOOLEAN,   \* self.calendar_service with a built service
     calendars        : SeqsUpTo(CalInfos, 2),
     mapbox_service   : BOOLEAN,   \* MAPBOX_API_KEY is set
     canvas_api_key   : BOOLEAN,   \* CANVAS_API_KEY is set
     canvas_use_mock  : BOOLEAN,   \* config['canvas']['use_mock_data']
     show_announcements : BOOLEAN] \* config['canvas']['show_announcements']

Cal(i, en, ok) == [id |-> i, enabled |-> en, is_dict |-> ok]

\* The calendar.calendars shapes explored: none, one calendar, two
\* calendars, a disabled second calendar, a second entry that is not an
\* object.
CalendarsShapes ==
    { <<>>,
      <<Cal(1, TRUE, TRUE)>>,
      <<Cal(1, TRUE, TRUE), Cal(2, TRUE, TRUE)>>,
      <<Cal(1, TRUE, TRUE), Cal(2, FALSE, TRUE)>>,
      <<Cal(1, TRUE, TRUE), Cal(2, TRUE, FALSE)>> }

DefaultConfig ==
    [test_mode |-> FALSE, weather_api_key |-> FALSE, rss_feeds |-> FALSE,
     use_mock_data |-> TRUE, calendar_service |-> FALSE, calendars |-> <<>>,
     mapbox_service |-> FALSE, canvas_api_key |-> FALSE,
     canvas_use_mock |-> FALSE, show_announcements |-> TRUE]

\* The live calendar branch is taken: use_mock_data is false and the
\* calendar service exists.
calendar_live(cfg) == ~cfg.use_mock_data /\ cfg.calendar_service

\* ------------------------------------------------------------------------
\* GoogleCalendarService.get_events and
\* DashboardGenerator.fetch_calendar_events
\* ------------------------------------------------------------------------
\* An event as the calendar API returns it: day is the offset of its start
\* date from today, time its start time of day in minutes or AllDay (a
\* 'date' without 'dateTime').
RawEvents == [summary : 1..2, day : -1..5, time : {AllDay, 540}]

\* The API's answer to one events().list().execute(): error is TRUE when
\* the call raises, items are the events otherwise.
ApiError == [asked |-> TRUE, error |-> TRUE, items |-> <<>>]

ApiOk(items) == [asked |-> TRUE, error |-> FALSE, items |-> items]

NotAsked == [asked |-> FALSE, error |-> FALSE, items |-> <<>>]

\* Answers to a flat-list query explored over time: events of today with
\* one summary, at most maxResults of them, timed after the first.
FlatResponses ==
    {ApiError} \cup
    {ApiOk(items) :
        items \in {s \in SeqsUpTo({e \in RawEvents :
                                       e.day = 0 /\ e.summary = 1},
                                  MaxEventsPerCalendar) :
                      \A i \in 2..Len(s) : s[i].time = 540}}

\* formatted_events.append({...}): the start keeps the time of day only.
format_event(e, cal_id) ==
    [summary |-> e.summary, start |-> e.time, calendar_id |-> cal_id]

\* Any exception inside get_events is caught and [] returned.
get_events(service, cal_id, resp) ==
    IF ~service THEN <<>>
    ELSE IF resp.error THEN <<>>
    ELSE [i \in 1..Len(resp.items) |-> format_event(resp.items[i], cal_id)]

\* Order of the sort key (x['start'], x['summary']): the strings 'HH:MM'
\* compare as the minutes do, and 'All Day' is greater than every 'HH:MM'.
start_key(start) == IF start = AllDay THEN MinutesPerDay ELSE start

event_key_le(a, b) ==
    \/ start_key(a.start) < start_key(b.start)
    \/ start_key(a.start) = start_key(b.start) /\ a.summary <= b.summary

RECURSIVE insert_event(_, _)
\* e placed after every element of the sorted s that is not greater.
insert_event(e, s) ==
    IF s = <<>> THEN <<e>>
    ELSE IF event_key_le(s[Len(s)], e) THEN Append(s, e)
    ELSE Append(insert_event(e, SubSeq(s, 1, Len(s) - 1)), s[Len(s)])

RECURSIVE sort_events(_)
\* list.sort: stable, ascending.
sort_events(s) ==
    IF s = <<>> THEN <<>>
    ELSE insert_event(s[Len(s)], sort_events(SubSeq(s, 1, Len(s) - 1)))

truncate(s, n) == SubSeq(s, 1, Min(Len(s), n))

\* _get_mock_calendar_events: Team Standup 09:00, Project Review 14:00,
\* Client Call 16:00, Monthly review All Day.
MockCalendarEvents ==
    << [summary |-> 101, start |-> 540, calendar_id |-> 0],
       [summary |-> 102, start |-> 840, calendar_id |-> 0],
       [summary |-> 103, start |-> 960, calendar_id |-> 0],
       [summary |-> 104, start |-> AllDay, calendar_id |-> 0] >>

RECURSIVE fetch_all_events(_, _, _)
\* The loop over calendars.items(): the events of the enabled calendars,
\* in configuration order.  resps[i] answers the query of calendar i.
fetch_all_events(cfg, resps, n) ==
    IF n = 0 THEN <<>>
    ELSE LET info == cfg.calendars[n]
             rest == fetch_all_events(cfg, resps, n - 1)
         IN IF info.enabled
            THEN rest \o get_events(cfg.calendar_service, info.id, resps[n])
            ELSE rest

\* An entry of calendars that is not an object raises AttributeError outside
\* the per-calendar try, which the outer except catches.
calendars_raise(cfg) ==
    \E i \in 1..Len(cfg.calendars) : ~cfg.calendars[i].is_dict

\* The calendars whose events are requested from the API before the loop
\* ends or raises.
calendars_queried(cfg) ==
    {i \in 1..Len(cfg.calendars) :
        /\ cfg.calendars[i].enabled
        /\ \A j \in 1..i : cfg.calendars[j].is_dict}

Result(src, evs) == [source |-> src, events |-> evs]

\* The value returned, the cache file afterwards, and the cache calls made.
FetchOutcome(res, file, ld, sv) ==
    [result |-> res, file |-> file, loaded |-> ld, saved |-> sv]

fetch_calendar_events_recaching(cfg, resps, file, now, io) ==
    IF cfg.test_mode
    THEN FetchOutcome(Result("mock", MockCalendarEvents), file, FALSE, FALSE)
    ELSE IF calendar_live(cfg)
    THEN IF calendars_raise(cfg)
         THEN LET cached_events == load_calendar_cache(file, now)
              IN IF cached_events # <<>>
                 THEN FetchOutcome(Result("cache", cached_events),
                                   save_calendar_cache(file, cached_events, now, io),
                                   TRUE, TRUE)
                 ELSE FetchOutcome(Result("mock", MockCalendarEvents),
                                   file, TRUE, FALSE)
         ELSE LET all_events ==
                      truncate(sort_events(
                          fetch_all_events(cfg, resps, Len(cfg.calendars))),
                          MaxEventsTotal)
              IN IF all_events # <<>>
                 THEN FetchOutcome(Result("live", all_events),
                                   save_calendar_cache(file, all_events, now, io),
                                   FALSE, TRUE)
                 ELSE FetchOutcome(Result("live", all_events), file, FALSE, FALSE)
    ELSE FetchOutcome(Result("mock", MockCalendarEvents), file, FALSE, FALSE)

fetch_calendar_events_saving_empty(cfg, resps, file, now, io) ==
    IF cfg.test_mode
    THEN FetchOutcome(Result("mock", MockCalendarEvents), file, FALSE, FALSE)
    ELSE IF calendar_live(cfg)
    THEN IF calendars_raise(cfg)
         THEN LET cached_events == load_calendar_cache(file, now)
              IN IF cached_events # <<>>
                 THEN FetchOutcome(Result("cache", cached_events),
                                   file, TRUE, FALSE)
                 ELSE FetchOutcome(Result("mock", MockCalendarEvents),
                                   file, TRUE, FALSE)
         ELSE LET all_events ==
                      truncate(sort_events(
                          fetch_all_events(cfg, resps, Len(cfg.calendars))),
                          MaxEventsTotal)
              IN FetchOutcome(Result("live", all_events),
                              save_calendar_cache(file, all_events, now, io),
                              FALSE, TRUE)
    ELSE FetchOutcome(Result("mock", MockCalendarEvents), file, FALSE, FALSE)

\* cfg: configuration; resps: the API's answer per configured calendar;
\* file: the cache file; now: the clock; io: outcome of the cache write.
fetch_calendar_events(cfg, resps, file, now, io) ==
    IF cfg.test_mode
    THEN FetchOutcome(Result("mock", MockCalendarEvents), file, FALSE, FALSE)
    ELSE IF calendar_live(cfg)
    THEN IF calendars_raise(cfg)
         THEN LET cached_events == load_calendar_cache(file, now)
              IN IF cached_events # <<>>
                 THEN FetchOutcome(Result("cache", cached_events),
                                   file, TRUE, FALSE)
                 ELSE FetchOutcome(Result("mock", MockCalendarEvents),
                                   file, TRUE, FALSE)
         ELSE LET all_events ==
                      truncate(sort_events(
                          fetch_all_events(cfg, resps, Len(cfg.calendars))),
                          MaxEventsTotal)
              IN IF all_events # <<>>
                 THEN FetchOutcome(Result("live", all_events),
                                   save_calendar_cache(file, all_events, now, io),
                                   FALSE, TRUE)
                 ELSE FetchOutcome(Result("live", all_events), file, FALSE, FALSE)
    ELSE FetchOutcome(Result("mock", MockCalendarEvents), file, FALSE, FALSE)

NoResult == Result("none", <<>>)

\* The answers the API gives to the queries of one fetch: one per calendar
\* queried, NotAsked for the others; calendars after the first answer with
\* at most one event.
ResponsesFor(cfg, answers) ==
    {r \in [1..Len(cfg.calendars) -> answers \cup {NotAsked}] :
        \A i \in 1..Len(cfg.calendars) :
            /\ (r[i] = NotAsked) <=>
                  ~(i \in calendars_queried(cfg) /\ calendar_live(cfg)
                      /\ ~cfg.test_mode)
            /\ i > 1 => Len(r[i].items) <= 1}

\* ------------------------------------------------------------------------
\* DashboardGenerator.fetch_agenda_events
\* ------------------------------------------------------------------------
AgendaDays == 5

\* if 0 <= days_ahead < 5: the bucket index of an event days_ahead days
\* after today, NoValue when the event is dropped.
agenda_bucket_clamped(days_ahead) ==
    IF days_ahead < 0 THEN 0
    ELSE IF days_ahead >= AgendaDays THEN AgendaDays - 1
    ELSE days_ahead

agenda_bucket(days_ahead) ==
    IF 0 <= days_ahead /\ days_ahead < AgendaDays THEN days_ahead ELSE NoValue

\* The five agenda days with no events; bucket index d is element d + 1.
EmptyAgenda == [d \in 1..AgendaDays |-> <<>>]

RECURSIVE place_events(_, _, _)
\* for event in raw_events: agenda[days_ahead]['events'].append(event_data)
place_events(agenda, items, cal_id) ==
    IF items = <<>> THEN agenda
    ELSE LET e == Head(items)
             b == agenda_bucket(e.day)
         IN place_events(
                IF b = NoValue THEN agenda
                ELSE [agenda EXCEPT ![b + 1] = Append(@, format_event(e, cal_id))],
                Tail(items), cal_id)

RECURSIVE fetch_agenda_calendars_aborting(_, _, _)
fetch_agenda_calendars_aborting(cfg, resps, n) ==
    IF n = 0 THEN EmptyAgenda
    ELSE LET info == cfg.calendars[n]
             rest == fetch_agenda_calendars_aborting(cfg, resps, n - 1)
         IN IF ~info.enabled THEN rest
            ELSE IF resps[n].error THEN EmptyAgenda
            ELSE place_events(rest, resps[n].items, info.id)

RECURSIVE fetch_agenda_calendars(_, _, _)
\* The loop over calendars.items(): a query that raises is logged and the
\* loop continues with the next calendar.
fetch_agenda_calendars(cfg, resps, n) ==
    IF n = 0 THEN EmptyAgenda
    ELSE LET info == cfg.calendars[n]
             rest == fetch_agenda_calendars(cfg, resps, n - 1)
         IN IF info.enabled /\ ~resps[n].error
            THEN place_events(rest, resps[n].items, info.id)
            ELSE rest

\* key=lambda x: x['start'] if x['start'] != 'All Day' else '00:00'
agenda_key(start) == IF start = AllDay THEN 0 ELSE start

RECURSIVE insert_agenda_event(_, _)
insert_agenda_event(e, s) ==
    IF s = <<>> THEN <<e>>
    ELSE IF agenda_key(s[Len(s)].start) <= agenda_key(e.start) THEN Append(s, e)
    ELSE Append(insert_agenda_event(e, SubSeq(s, 1, Len(s) - 1)), s[Len(s)])

RECURSIVE sort_agenda_day(_)
sort_agenda_day(s) ==
    IF s = <<>> THEN <<>>
    ELSE insert_agenda_event(s[Len(s)], sort_agenda_day(SubSeq(s, 1, Len(s) - 1)))

\* _get_mock_agenda_events: today Do laundry 21:00 and Monthly review (all
\* day), tomorrow NCSU orientation 08:30, day 3 Client Call 14:00 and
\* Deadline: Project X (all day); days 2 and 4 are empty.
MockAgenda ==
    << << [summary |-> 111, start |-> 1260, calendar_id |-> 0],
          [summary |-> 112, start |-> AllDay, calendar_id |-> 0] >>,
       << [summary |-> 113, start |-> 510, calendar_id |-> 0] >>,
       << >>,
       << [summary |-> 114, start |-> 840, calendar_id |-> 0],
          [summary |-> 115, start |-> AllDay, calendar_id |-> 0] >>,
       << >> >>

\* Returns the mock agenda in test mode and when the live branch is not
\* configured or raises, [] when no calendar is configured, and the five
\* day buckets otherwise.
fetch_agenda_events(cfg, resps) ==
    IF cfg.test_mode THEN Result("mock", MockAgenda)
    ELSE IF calendar_live(cfg)
    THEN IF cfg.calendars = <<>> THEN Result("empty", <<>>)
         ELSE IF calendars_raise(cfg) THEN Result("mock", MockAgenda)
         ELSE LET agenda == fetch_agenda_calendars(cfg, resps, Len(cfg.calendars))
              IN Result("live", [d \in 1..AgendaDays |-> sort_agenda_day(agenda[d])])
    ELSE Result("mock", MockAgenda)

\* ------------------------------------------------------------------------
\* The source pipelines of DashboardGenerator.generate_dashboard
\* ------------------------------------------------------------------------
\* Outcome of one HTTP request: a well-formed answer, a
\* requests.RequestException (timeout, unreachable host, non-2xx status), or
\* a JSON answer of unexpected shape (a KeyError,
\* IndexError, TypeError or AttributeError where it is read).
Http == {"ok", "error", "malformed"}

\* How a fetch ends: the kind of value it returns ("mock" a mock dataset,
\* "live" a value built on the live path, "cache" the cached events,
\* "fallback" the fallback traffic data, "None"), whether it issued a
\* network request, and whether it raised instead of returning.
Out(kind, net) == [kind |-> kind, net |-> net, raised |-> FALSE]

Raised(net) == [kind |-> "raised", net |-> net, raised |-> TRUE]

\* Only requests.exceptions.RequestException is caught.
fetch_weather_fallback(cfg, fb) ==
    IF ~cfg.weather_api_key THEN Out("None", FALSE)
    ELSE IF fb = "error" THEN Out("None", TRUE)
    ELSE IF fb = "malformed" THEN Raised(TRUE)
    ELSE Out("live", TRUE)

\* geo, cur: the geocoding and current-weather requests; fb: the request of
\* _fetch_weather_fallback.  An empty geocoding answer and every exception
\* lead to the fallback.
fetch_weather(cfg, geo, cur, fb) ==
    IF cfg.test_mode THEN Out("mock", FALSE)
    ELSE IF ~cfg.weather_api_key THEN Out("mock", FALSE)
    ELSE IF geo = "ok" /\ cur = "ok" THEN Out("live", TRUE)
    ELSE fetch_weather_fallback(cfg, fb)

\* Without an API key the forecast is None; only RequestException is
\* caught.
fetch_forecast(cfg, resp) ==
    IF cfg.test_mode THEN Out("mock", FALSE)
    ELSE IF ~cfg.weather_api_key THEN Out("None", FALSE)
    ELSE IF resp = "error" THEN Out("None", TRUE)
    ELSE IF resp = "malformed" THEN Raised(TRUE)
    ELSE Out("live", TRUE)

\* Every configured feed is parsed, whatever test_mode is; an exception is
\* caught per feed.
fetch_rss_feeds(cfg, resp) ==
    IF cfg.rss_feeds THEN Out("live", TRUE) ELSE Out("live", FALSE)

\* The live branch is taken whatever test_mode is; get_week_events catches
\* its exceptions; an exception of the loop leads to the mock week.
fetch_week_calendar_events(cfg) ==
    IF calendar_live(cfg)
    THEN IF calendars_raise(cfg)
         THEN Out("mock", calendars_queried(cfg) # {})
         ELSE Out("live", calendars_queried(cfg) # {})
    ELSE Out("mock", FALSE)

\* CanvasService.fetch_assignments, fetch_grading_queue,
\* fetch_student_engagement, fetch_discussion_hotspots and
\* fetch_recent_assignment_performance behind their fetch_canvas_* wrapper:
\* mock data with use_mock_data or without an API key, whatever test_mode
\* is; _make_request turns a RequestException into None; any other
\* exception is caught by the wrapper, which returns [].
fetch_canvas_view(cfg, resp) ==
    IF cfg.canvas_use_mock \/ ~cfg.canvas_api_key THEN Out("mock", FALSE)
    ELSE Out("live", TRUE)

\* CanvasService.fetch_announcements: as the other views, and [] without
\* a request when show_announcements is false.
fetch_canvas_announcements(cfg, resp) ==
    IF cfg.canvas_use_mock \/ ~cfg.canvas_api_key THEN Out("mock", FALSE)
    ELSE IF ~cfg.show_announcements THEN Out("live", FALSE)
    ELSE Out("live", TRUE)

\* No test_mode check; every failure leads to the mock air quality.
fetch_air_quality(cfg, geo, aqi) ==
    IF ~cfg.weather_api_key THEN Out("mock", FALSE)
    ELSE IF geo = "ok" /\ aqi = "ok" THEN Out("live", TRUE)
    ELSE Out("mock", TRUE)

\* get_travel_times catches every exception and answers with cached or
\* placeholder travel times; the in-process cache is empty in the first
\* cycle of a process.
fetch_traffic_data(cfg, resp) ==
    IF cfg.test_mode THEN Out("mock", FALSE)
    ELSE IF ~cfg.mapbox_service THEN Out("fallback", FALSE)
    ELSE Out("live", TRUE)

NotLoaded == [done |-> FALSE, events |-> <<>>]

NeverSaved == [done |-> FALSE, io |-> "ok", at |-> 0, events |-> <<>>]

SunIdle ==
    /\ weather = NoWeather
    /\ current_time = 0
    /\ sun_position = NoValue
    /\ prev_time = NoValue
    /\ prev_position = NoValue

CacheIdle ==
    /\ clock = 0
    /\ cache_file = NoFile
    /\ loaded = NotLoaded
    /\ last_save = NeverSaved

CalIdle ==
    /\ config = DefaultConfig
    /\ events = NoResult
    /\ cal_responses = <<>>
    /\ cache_before = NoFile

AgendaIdle ==
    /\ agenda_events = NoResult
    /\ agenda_responses = <<>>

CycleIdle ==
    /\ pc = "idle"
    /\ template_data = <<>>
    /\ last = <<>>
    /\ net_calls = {}
    /\ cycle_result = "none"

NoCall == [fn |-> "none", args |-> <<>>]

NotReturned == [done |-> FALSE, value |-> 0]

Returned(v) == [done |-> TRUE, value |-> v]

CallIdle ==
    /\ call = NoCall
    /\ result = NotReturned

NoTravelCall ==
    [answer |-> "none", requested |-> FALSE, age |-> NoValue,
     resp |-> "none", destinations |-> <<>>, value |-> <<>>]

\* self._cache = {}: no 'travel_times' key.
EmptyCache == [has_travel_times |-> FALSE, travel_times |-> <<>>]

TrafficIdle ==
    /\ traffic_now = 0
    /\ cache_time = NoValue
    /\ mapbox_cache = EmptyCache
    /\ travel_call = NoTravelCall

LoopIdle ==
    /\ loop_pc = "idle"
    /\ loop_step = 0
    /\ cycles = 0
    /\ args_interval = 900
    /\ success = "none"
    /\ wait = NoValue
    /\ signalled = FALSE
    /\ stopped_in = "none"
    /\ exit_status = NoValue

MoreIdle == CallIdle /\ TrafficIdle /\ LoopIdle

CacheInit ==
    /\ clock = 0
    /\ cache_file \in {NoFile, UnreadableFile}
    /\ loaded = NotLoaded
    /\ last_save = NeverSaved
    /\ SunIdle /\ CalIdle /\ AgendaIdle /\ CycleIdle /\ MoreIdle

\* datetime.now() advances.
CacheTick ==
    /\ clock + ClockStep <= MaxClock
    /\ clock' = clock + ClockStep
    /\ loaded' = NotLoaded
    /\ UNCHANGED <<cache_file, last_save>>
    /\ UNCHANGED cacheOthers

\* The event lists handed to _save_calendar_cache: any first event, then
\* timed events of the first calendar.
SavedLists ==
    {s \in SeqsUpTo(FormattedEvents, MaxCacheEvents) :
        \A i \in 2..Len(s) : s[i].start = 540 /\ s[i].calendar_id = 1}

CacheSave ==
    \E evs \in SavedLists, io \in IoOutcomes :
        /\ cache_file' = save_calendar_cache(cache_file, evs, clock, io)
        /\ last_save' = [done |-> TRUE, io |-> io, at |-> clock, events |-> evs]
        /\ loaded' = NotLoaded
        /\ UNCHANGED clock
        /\ UNCHANGED cacheOthers

CacheLoad ==
    /\ loaded' = [done |-> TRUE, events |-> load_calendar_cache(cache_file, clock)]
    /\ UNCHANGED <<clock, cache_file, last_save>>
    /\ UNCHANGED cacheOthers

CacheNext == CacheTick \/ CacheSave \/ CacheLoad

SpecCache == CacheInit /\ [][CacheNext]_vars

\* ------------------------------------------------------------------------
\* SpecCal: fetch_calendar_events called again and again as the clock
\* advances
\* ------------------------------------------------------------------------
\* The constructor creates the calendar service only when use_mock_data is
\* false, and may fail to.
ServiceStates == {<<TRUE, FALSE>>, <<FALSE, FALSE>>, <<FALSE, TRUE>>}

CalConfigs ==
    {[DefaultConfig EXCEPT !.test_mode = t, !.use_mock_data = ms[1],
                           !.calendar_service = ms[2], !.calendars = c] :
        t \in BOOLEAN, ms \in ServiceStates, c \in CalendarsShapes}

\* The cache file a process finds at start: none, an unreadable one, or one
\* an earlier process wrote.
InitialCacheFiles ==
    {NoFile, UnreadableFile,
     json_document(0, <<[summary |-> 2, start |-> 540, calendar_id |-> 1]>>)}

CalInit ==
    /\ config \in CalConfigs
    /\ events = NoResult
    /\ cal_responses = <<>>
    /\ cache_file \in InitialCacheFiles
    /\ cache_before = cache_file
    /\ clock = 0
    /\ loaded = NotLoaded
    /\ last_save = NeverSaved
    /\ SunIdle /\ AgendaIdle /\ CycleIdle /\ MoreIdle

CalTick ==
    /\ clock + ClockStep <= MaxClock
    /\ clock' = clock + ClockStep
    /\ UNCHANGED <<cache_file, loaded, last_save>>
    /\ UNCHANGED calVars
    /\ UNCHANGED calOthers

\* One call of fetch_calendar_events.
CalendarFetched(resps, io) ==
    LET out == fetch_calendar_events(config, resps, cache_file, clock, io)
    IN /\ events' = out.result
       /\ cal_responses' = resps
       /\ cache_before' = cache_file
       /\ cache_file' = out.file
       /\ loaded' = IF out.loaded
                    THEN [done |-> TRUE,
                          events |-> load_calendar_cache(cache_file, clock)]
                    ELSE NotLoaded
       /\ last_save' = IF out.saved
                       THEN [done |-> TRUE, io |-> io, at |-> clock,
                             events |-> out.result.events]
                       ELSE last_save
       /\ UNCHANGED clock

CalFetch ==
    /\ \E resps \in ResponsesFor(config, FlatResponses), io \in IoOutcomes :
          CalendarFetched(resps, io)
    /\ UNCHANGED config
    /\ UNCHANGED calOthers

CalNext == CalTick \/ CalFetch

SpecCal == CalInit /\ [][CalNext]_vars

\* ------------------------------------------------------------------------
\* SpecAgenda: one call of fetch_agenda_events on every configuration and
\* every answer of the calendar API
\* ------------------------------------------------------------------------
\* Answers to an agenda query with at most n events; the event at position
\* i has summary i, so that (calendar, summary) identifies an event.
AgendaResponses(n) ==
    {ApiError} \cup
    {ApiOk(items) : items \in
        {s \in SeqsUpTo(RawEvents, n) : \A i \in 1..Len(s) : s[i].summary = i}}

AgendaResponsesFor(cfg) ==
    {r \in [1..Len(cfg.calendars) ->
               AgendaResponses(MaxAgendaEvents) \cup {NotAsked}] :
        \A i \in 1..Len(cfg.calendars) :
            /\ (r[i] = NotAsked) <=>
                  ~(i \in calendars_queried(cfg) /\ calendar_live(cfg)
                      /\ ~cfg.test_mode)
            /\ i > 1 => Len(r[i].items) <= 1}

AgendaInit ==
    /\ config \in CalConfigs
    /\ agenda_responses \in AgendaResponsesFor(config)
    /\ agenda_events = NoResult
    /\ events = NoResult
    /\ cal_responses = <<>>
    /\ cache_before = NoFile
    /\ CacheIdle /\ SunIdle /\ CycleIdle /\ MoreIdle

AgendaFetch ==
    /\ agenda_events = NoResult
    /\ agenda_events' = fetch_agenda_events(config, agenda_responses)
    /\ UNCHANGED <<config, agenda_responses>>
    /\ UNCHANGED agendaOthers

AgendaNext == AgendaFetch

SpecAgenda == AgendaInit /\ [][AgendaNext]_vars

SunInit ==
    /\ CacheIdle /\ CalIdle /\ AgendaIdle /\ CycleIdle /\ MoreIdle
    /\ weather \in SunWeathers
    /\ current_time \in SampleMinutes
    /\ sun_position = NoValue
    /\ prev_time = NoValue
    /\ prev_position = NoValue

\* One call of _calculate_sun_position at a clock time t not before the
\* previous call's.
SunCall ==
    \E t \in SampleMinutes :
        /\ t >= current_time
        /\ current_time' = t
        /\ sun_position' = calculate_sun_position(weather, t)
        /\ prev_time' = IF sun_position = NoValue THEN NoValue ELSE current_time
        /\ prev_position' = sun_position
        /\ UNCHANGED weather
        /\ UNCHANGED sunOthers

SunNext == SunCall

SpecSun == SunInit /\ [][SunNext]_vars

\* ------------------------------------------------------------------------
\* Spec: one cycle of DashboardGenerator.generate_dashboard
\* ------------------------------------------------------------------------
\* The sections fetched by generate_dashboard, in the order of its calls.
Sources ==
    <<"weather", "forecast", "articles", "events", "week_events",
      "agenda_events", "canvas_assignments", "canvas_announcements",
      "canvas_grading_queue", "canvas_student_engagement",
      "canvas_discussion_hotspots", "canvas_assignment_performance",
      "air_quality", "traffic_data">>

SourceSet == {Sources[i] : i \in 1..Len(Sources)}

IndexOf(src) == CHOOSE i \in 1..Len(Sources) : Sources[i] = src

\* The step after the fetch of src.
After(src) ==
    IF IndexOf(src) < Len(Sources) THEN Sources[IndexOf(src) + 1]
    ELSE "assemble"

CalendarParts ==
    { <<TRUE, FALSE, <<>>>>,
      <<FALSE, FALSE, <<Cal(1, TRUE, TRUE)>>>>,
      <<FALSE, TRUE, <<>>>>,
      <<FALSE, TRUE, <<Cal(1, TRUE, TRUE)>>>>,
      <<FALSE, TRUE, <<Cal(1, TRUE, TRUE), Cal(2, TRUE, FALSE)>>>> }

\* <<canvas_api_key, canvas_use_mock, show_announcements>>
CanvasParts ==
    { <<FALSE, FALSE, TRUE>>, <<TRUE, TRUE, TRUE>>,
      <<TRUE, FALSE, TRUE>>, <<TRUE, FALSE, FALSE>> }

CycleConfigs ==
    {[test_mode |-> t, weather_api_key |-> w, rss_feeds |-> r,
      use_mock_data |-> c[1], calendar_service |-> c[2], calendars |-> c[3],
      mapbox_service |-> m, canvas_api_key |-> k[1],
      canvas_use_mock |-> k[2], show_announcements |-> k[3]] :
        t \in BOOLEAN, w \in BOOLEAN, r \in BOOLEAN, m \in BOOLEAN,
        c \in CalendarParts, k \in CanvasParts}

\* Answers of the calendar API during a cycle.
CycleEvent == [summary |-> 1, day |-> 0, time |-> 540]

CycleResponses == {ApiError, ApiOk(<<>>), ApiOk(<<CycleEvent>>)}

CycleResponsesFor(cfg) == ResponsesFor(cfg, CycleResponses)

CycleAgendaResponsesFor(cfg) ==
    ResponsesFor(cfg, {ApiError, ApiOk(<<CycleEvent>>)})

\* The cache file the process finds: none, or one an earlier process wrote.
CycleCacheFiles ==
    {NoFile,
     json_document(0, <<[summary |-> 2, start |-> 540, calendar_id |-> 1]>>)}

Init ==
    /\ config \in CycleConfigs
    /\ pc = "weather"
    /\ template_data = [s \in SourceSet |-> "unset"]
    /\ last = [source |-> "start", kind |-> "unset", net |-> FALSE,
               raised |-> FALSE]
    /\ net_calls = {}
    /\ cycle_result = "none"
    /\ events = NoResult
    /\ cal_responses = <<>>
    /\ cache_file \in CycleCacheFiles
    /\ cache_before = cache_file
    /\ clock = 0
    /\ loaded = NotLoaded
    /\ last_save = NeverSaved
    /\ agenda_events = NoResult
    /\ agenda_responses = <<>>
    /\ SunIdle /\ MoreIdle

\* The fetch of src ends with out: its value becomes the section's value
\* and the next fetch follows, or the exception reaches the except clause
\* of generate_dashboard, which returns False.
Step(src, out) ==
    /\ pc = src
    /\ last' = [source |-> src, kind |-> out.kind, net |-> out.net,
                raised |-> out.raised]
    /\ net_calls' = IF out.net THEN net_calls \cup {src} ELSE net_calls
    /\ IF out.raised
       THEN /\ pc' = "done"
            /\ cycle_result' = "False"
            /\ UNCHANGED template_data
       ELSE /\ pc' = After(src)
            /\ template_data' = [template_data EXCEPT ![src] = out.kind]
            /\ UNCHANGED cycle_result
    /\ UNCHANGED config

calendarUnchanged ==
    UNCHANGED <<events, cal_responses, cache_before, cache_file, loaded,
                last_save, clock>>

FetchWeather ==
    /\ \E geo \in Http, cur \in Http, fb \in Http :
          Step("weather", fetch_weather(config, geo, cur, fb))
    /\ calendarUnchanged
    /\ UNCHANGED <<sunVars, agendaVars, moreVars>>

FetchForecast ==
    /\ \E resp \in Http : Step("forecast", fetch_forecast(config, resp))
    /\ calendarUnchanged
    /\ UNCHANGED <<sunVars, agendaVars, moreVars>>

FetchRss ==
    /\ \E resp \in Http : Step("articles", fetch_rss_feeds(config, resp))
    /\ calendarUnchanged
    /\ UNCHANGED <<sunVars, agendaVars, moreVars>>

FetchEvents ==
    /\ \E resps \in CycleResponsesFor(config), io \in IoOutcomes :
          /\ CalendarFetched(resps, io)
          /\ Step("events",
                  Out(fetch_calendar_events(config, resps, cache_file, clock,
                                            io).result.source,
                      \E i \in DOMAIN resps : resps[i].asked))
    /\ UNCHANGED <<sunVars, agendaVars, moreVars>>

FetchWeekEvents ==
    /\ Step("week_events", fetch_week_calendar_events(config))
    /\ calendarUnchanged
    /\ UNCHANGED <<sunVars, agendaVars, moreVars>>

FetchAgenda ==
    /\ \E resps \in CycleAgendaResponsesFor(config) :
          LET r == fetch_agenda_events(config, resps)
          IN  /\ Step("agenda_events",
                      Out(IF r.source = "empty" THEN "live" ELSE r.source,
                          \E i \in DOMAIN resps : resps[i].asked))
              /\ agenda_events' = r
              /\ agenda_responses' = resps
    /\ calendarUnchanged
    /\ UNCHANGED <<sunVars, moreVars>>

FetchCanvasAssignments ==
    /\ \E resp \in Http :
          Step("canvas_assignments", fetch_canvas_view(config, resp))
    /\ calendarUnchanged
    /\ UNCHANGED <<sunVars, agendaVars, moreVars>>

FetchCanvasAnnouncements ==
    /\ \E resp \in Http :
          Step("canvas_announcements",
               fetch_canvas_announcements(config, resp))
    /\ calendarUnchanged
    /\ UNCHANGED <<sunVars, agendaVars, moreVars>>

FetchCanvasGradingQueue ==
    /\ \E resp \in Http :
          Step("canvas_grading_queue", fetch_canvas_view(config, resp))
    /\ calendarUnchanged
    /\ UNCHANGED <<sunVars, agendaVars, moreVars>>

FetchCanvasStudentEngagement ==
    /\ \E resp \in Http :
          Step("canvas_student_engagement", fetch_canvas_view(config, resp))
    /\ calendarUnchanged
    /\ UNCHANGED <<sunVars, agendaVars, moreVars>>

FetchCanvasDiscussionHotspots ==
    /\ \E resp \in Http :
          Step("canvas_discussion_hotspots", fetch_canvas_view(config, resp))
    /\ calendarUnchanged
    /\ UNCHANGED <<sunVars, agendaVars, moreVars>>

FetchCanvasAssignmentPerformance ==
    /\ \E resp \in Http :
          Step("canvas_assignment_performance",
               fetch_canvas_view(config, resp))
    /\ calendarUnchanged
    /\ UNCHANGED <<sunVars, agendaVars, moreVars>>

FetchAirQuality ==
    /\ \E geo \in Http, aqi \in Http :
          Step("air_quality", fetch_air_quality(config, geo, aqi))
    /\ calendarUnchanged
    /\ UNCHANGED <<sunVars, agendaVars, moreVars>>

FetchTraffic ==
    /\ \E resp \in Http :
          Step("traffic_data", fetch_traffic_data(config, resp))
    /\ calendarUnchanged
    /\ UNCHANGED <<sunVars, agendaVars, moreVars>>

\* The derived values (sun position, ticker, UV level, month grid, week
\* range) are computed from the fetched sections, each behind its own
\* guard or try/except, and template_data is built.
Assemble ==
    /\ pc = "assemble"
    /\ pc' = "render"
    /\ last' = [source |-> "assemble", kind |-> "unset", net |-> FALSE,
                raised |-> FALSE]
    /\ UNCHANGED <<config, template_data, net_calls, cycle_result>>
    /\ calendarUnchanged
    /\ UNCHANGED <<sunVars, agendaVars, moreVars>>

\* env.get_template and template.render; an exception (template missing,
\* template error) is caught by generate_dashboard, which returns False.
Render ==
    /\ pc = "render"
    /\ \E ok \in BOOLEAN :
          /\ last' = [source |-> "render", kind |-> "unset", net |-> FALSE,
                      raised |-> ~ok]
          /\ pc' = IF ok THEN "write" ELSE "done"
          /\ cycle_result' = IF ok THEN cycle_result ELSE "False"
    /\ UNCHANGED <<config, template_data, net_calls>>
    /\ calendarUnchanged
    /\ UNCHANGED <<sunVars, agendaVars, moreVars>>

\* The page is written to output/index.html and True returned; an OSError
\* is caught by generate_dashboard, which returns False.
Write ==
    /\ pc = "write"
    /\ \E ok \in BOOLEAN :
          /\ last' = [source |-> "write", kind |-> "unset", net |-> FALSE,
                      raised |-> ~ok]
          /\ cycle_result' = IF ok THEN "True" ELSE "False"
    /\ pc' = "done"
    /\ UNCHANGED <<config, template_data, net_calls>>
    /\ calendarUnchanged
    /\ UNCHANGED <<sunVars, agendaVars, moreVars>>

Next ==
    \/ FetchWeather
    \/ FetchForecast
    \/ FetchRss
    \/ FetchEvents
    \/ FetchWeekEvents
    \/ FetchAgenda
    \/ FetchCanvasAssignments
    \/ FetchCanvasAnnouncements
    \/ FetchCanvasGradingQueue
    \/ FetchCanvasStudentEngagement
    \/ FetchCanvasDiscussionHotspots
    \/ FetchCanvasAssignmentPerformance
    \/ FetchAirQuality
    \/ FetchTraffic
    \/ Assemble
    \/ Render
    \/ Write

Spec == Init /\ [][Next]_vars

\* ------------------------------------------------------------------------
\* Wind speed of the weather record
\* ------------------------------------------------------------------------
\* round(n / d) of Python 3 for n >= 0: to the nearest integer, a tie to the
\* even one.
round_half_even(n, d) ==
    LET q == n \div d
        r == n % d
    IN  IF 2 * r < d THEN q
        ELSE IF 2 * r > d THEN q + 1
        ELSE IF q % 2 = 0 THEN q ELSE q + 1

\* config['weather']['units']
WindUnits == {"imperial", "metric", "standard"}

\* fetch_weather: wind_speed = round(speed), whatever the units are, and
\* the unit label.  Speeds are in tenths of a unit, the provider's value
\* being taken with one decimal.
fetch_weather_wind(speed, units) ==
    [wind_speed |-> 10 * round_half_even(speed, 10),
     wind_unit  |-> IF units = "imperial" THEN "mph"
                    ELSE IF units = "metric" THEN "km/h" ELSE "m/s"]

\* _fetch_weather_fallback: round(speed, 1) mph with imperial units,
\* round(speed * 3.6, 1) km/h otherwise.  36 * speed / 10 never falls on a
\* tie, so the float product rounds as the exact one.
fetch_weather_fallback_wind(speed, units) ==
    IF units = "imperial"
    THEN [wind_speed |-> speed, wind_unit |-> "mph"]
    ELSE [wind_speed |-> round_half_even(36 * speed, 10),
          wind_unit  |-> "km/h"]

\* ------------------------------------------------------------------------
\* DashboardGenerator._calculate_mock_uv_index
\* ------------------------------------------------------------------------
Months == 1..12

Hours == 0..23

\* time_multiplier, in tenths.
uv_time_multiplier(hour) ==
    IF 10 <= hour /\ hour <= 16
    THEN IF 12 <= hour /\ hour <= 14 THEN 12 ELSE 10
    ELSE IF (8 <= hour /\ hour < 10) \/ (16 < hour /\ hour <= 18) THEN 6
    ELSE 1

uv_base(month) ==
    IF month \in {6, 7, 8} THEN 8
    ELSE IF month \in {4, 5, 9, 10} THEN 6
    ELSE 3

calculate_mock_uv_index_unclamped(month, hour) ==
    (uv_base(month) * (uv_time_multiplier(hour) + 3)) \div 10

\* int(base_uv * time_multiplier) clamped to 0..11; none of the products is
\* within float error of an integer it does not reach.
calculate_mock_uv_index(month, hour) ==
    Max(0, Min(11, (uv_base(month) * uv_time_multiplier(hour)) \div 10))

\* ------------------------------------------------------------------------
\* DashboardGenerator._get_mock_air_quality
\* ------------------------------------------------------------------------
aqi_base(month) ==
    IF month \in {6, 7, 8} THEN 65
    ELSE IF month \in {12, 1, 2} THEN 55
    ELSE 40

\* time_multiplier, in tenths.
aqi_time_multiplier(hour) ==
    IF (7 <= hour /\ hour <= 9) \/ (17 <= hour /\ hour <= 19) THEN 13
    ELSE IF 11 <= hour /\ hour <= 15 THEN 11
    ELSE 8

aqi_status_lenient(final_aqi) ==
    IF final_aqi <= 60 THEN "Good"
    ELSE IF final_aqi <= 100 THEN "Moderate"
    ELSE IF final_aqi <= 150 THEN "Unhealthy for Sensitive Groups"
    ELSE "Unhealthy"

aqi_status(final_aqi) ==
    IF final_aqi <= 50 THEN "Good"
    ELSE IF final_aqi <= 100 THEN "Moderate"
    ELSE IF final_aqi <= 150 THEN "Unhealthy for Sensitive Groups"
    ELSE "Unhealthy"

\* final_aqi = int(base_aqi * time_multiplier), equal to the exact quotient
\* for the nine products that occur.
get_mock_air_quality(month, hour) ==
    LET final_aqi == (aqi_base(month) * aqi_time_multiplier(hour)) \div 10
    IN  [status |-> aqi_status(final_aqi), aqi |-> final_aqi]

\* ------------------------------------------------------------------------
\* CanvasService.fetch_grading_queue: priority of an item
\* ------------------------------------------------------------------------
\* due_at of an assignment: absent, not an ISO timestamp, or a timestamp.
DueKinds == {"none", "invalid", "ok"}

\* UTC offsets of the local zone, in hours.
UtcOffsets == {0, -5}

\* days_until_due = (due_date.date() - datetime.now().date()).days, where
\* due_date is the UTC timestamp of due_at and now is local time: now_hour
\* is the local hour of today, utc_offset the offset of the local zone and
\* delta the hours from now to the due timestamp.  Today is day 0.
days_until_due(now_hour, utc_offset, delta) ==
    (now_hour - utc_offset + delta) \div 24

grading_priority_narrow(due, now_hour, utc_offset, delta) ==
    IF due # "ok" THEN "low"
    ELSE IF days_until_due(now_hour, utc_offset, delta) <= 1 THEN "high"
    ELSE IF days_until_due(now_hour, utc_offset, delta) <= 2 THEN "medium"
    ELSE "low"

\* priority is 'low' without due_at and when fromisoformat raises
\* ValueError.
grading_priority(due, now_hour, utc_offset, delta) ==
    IF due # "ok" THEN "low"
    ELSE IF days_until_due(now_hour, utc_offset, delta) <= 1 THEN "high"
    ELSE IF days_until_due(now_hour, utc_offset, delta) <= 3 THEN "medium"
    ELSE "low"

\* ------------------------------------------------------------------------
\* MapboxService.get_travel_times: one destination of the routing matrix
\* ------------------------------------------------------------------------
determine_traffic_status_strict(duration_minutes) ==
    IF duration_minutes < 10 THEN "Light traffic"
    ELSE IF duration_minutes < 20 THEN "Moderate traffic"
    ELSE IF duration_minutes < 30 THEN "Heavy traffic"
    ELSE "Severe traffic"

determine_traffic_status(duration_minutes) ==
    IF duration_minutes <= 10 THEN "Light traffic"
    ELSE IF duration_minutes <= 20 THEN "Moderate traffic"
    ELSE IF duration_minutes <= 30 THEN "Heavy traffic"
    ELSE "Severe traffic"

\* duration_minutes = round(duration_seconds / 60) and its status.
travel_time(duration_seconds) ==
    LET duration_minutes == round_half_even(duration_seconds, 60)
    IN  [duration_minutes |-> duration_minutes,
         traffic_status   |-> determine_traffic_status(duration_minutes)]

\* ------------------------------------------------------------------------
\* DashboardGenerator.generate_dashboard: month_days
\* ------------------------------------------------------------------------
FirstGridYear == 2024

is_leap(year) ==
    (year % 4 = 0 /\ year % 100 # 0) \/ year % 400 = 0

\* calendar.monthrange(year, month)[1]
days_in_month(year, month) ==
    IF month = 2 THEN (IF is_leap(year) THEN 29 ELSE 28)
    ELSE IF month \in {4, 6, 9, 11} THEN 30
    ELSE 31

RECURSIVE days_since_first_year(_, _)
\* Days from 1 January of FirstGridYear to the first of the month.
days_since_first_year(year, month) ==
    IF year = FirstGridYear /\ month = 1 THEN 0
    ELSE IF month = 1
    THEN days_since_first_year(year - 1, 12) + 31
    ELSE days_since_first_year(year, month - 1)
            + days_in_month(year, month - 1)

\* Weekday of the first of the month, Monday = 0 as in calendar; 1 January
\* 2024 was a Monday.  It is first_week.index(1).
first_weekday(year, month) == days_since_first_year(year, month) % 7

\* calendar.monthcalendar(year, month), its weeks laid end to end: 0 for
\* the slots outside the month.
monthcalendar(year, month) ==
    LET k == first_weekday(year, month)
        n == days_in_month(year, month)
        len == 7 * ((k + n + 6) \div 7)
    IN  [pos \in 1..len |->
            IF pos <= k \/ pos > k + n THEN 0 ELSE pos - k]

MonthDay(number, is_today, is_other_month) ==
    [number |-> number, is_today |-> is_today,
     is_other_month |-> is_other_month]

\* month_days for now = (year, month, day).
month_days(year, month, day) ==
    LET month_cal == monthcalendar(year, month)
        prev_month == IF month = 1 THEN 12 ELSE month - 1
        prev_year == IF month = 1 THEN year - 1 ELSE year
        prev_month_days == days_in_month(prev_year, prev_month)
        k == first_weekday(year, month)
        n == days_in_month(year, month)
        prev_month_start_day == prev_month_days - (6 - k)
    IN  [pos \in 1..Len(month_cal) |->
            LET week_idx == (pos - 1) \div 7
                day_idx == (pos - 1) % 7
            IN  IF month_cal[pos] = 0
                THEN IF week_idx = 0
                     THEN MonthDay(prev_month_start_day + day_idx + 1,
                                   FALSE, TRUE)
                     ELSE MonthDay(pos - (k + n), FALSE, TRUE)
                ELSE MonthDay(month_cal[pos], month_cal[pos] = day, FALSE)]

\* Minutes from the start of today to the start of a raw event; an all-day
\* event starts with its day.
raw_start(e) ==
    e.day * MinutesPerDay + (IF e.time = AllDay THEN 0 ELSE e.time)

\* self.config and self.calendar_service on the live branch with two
\* enabled calendars.
LiveTwoCalendars ==
    [DefaultConfig EXCEPT !.use_mock_data = FALSE, !.calendar_service = TRUE,
                          !.calendars = <<Cal(1, TRUE, TRUE), Cal(2, TRUE, TRUE)>>]

\* What events().list(orderBy='startTime', maxResults=n) can answer for
\* one calendar: events of today and tomorrow in start order, told apart
\* by their summaries.
OrderedAnswers(n) ==
    {ApiOk(s) : s \in
        {s \in SeqsUpTo({e \in RawEvents : e.day \in 0..1}, n) :
            \A i, j \in 1..Len(s) :
                i < j => /\ raw_start(s[i]) <= raw_start(s[j])
                         /\ s[i].summary # s[j].summary}}

\* ------------------------------------------------------------------------
\* DashboardGenerator.fetch_forecast: the daily highs and lows
\* ------------------------------------------------------------------------
DayNames == <<"MON", "TUE", "WED", "THU", "FRI", "SAT", "SUN">>

\* data['list'][:40] and list(forecast_days.values())[:5]
ForecastSlice == 40

ForecastDays == 5

\* item['main']['temp'] in tenths of a degree: -0.5, 19.8, 20.5 and 21.5.
ForecastTemps == {-5, 198, 205, 215}

\* An entry of data['list']: day is the offset of its local date from
\* today.
ForecastEntry(day, temp) == [day |-> day, temp |-> temp]

RECURSIVE forecast_days(_, _)
\* The loop over the entries: forecast_days keeps its keys in the order
\* they were first met.  weekday is datetime.now().weekday().
forecast_days(items, weekday) ==
    IF items = <<>> THEN <<>>
    ELSE LET days == forecast_days(SubSeq(items, 1, Len(items) - 1), weekday)
             item == items[Len(items)]
             temp == round_half_even(item.temp, 10)
             seen == {k \in 1..Len(days) : days[k].day_key = item.day}
         IN IF seen = {}
            THEN Append(days,
                        [day_key |-> item.day,
                         day |-> IF item.day = 0 THEN "TODAY"
                                 ELSE DayNames[((weekday + item.day) % 7) + 1],
                         high |-> temp, low |-> temp])
            ELSE LET k == CHOOSE k \in seen : TRUE
                 IN [days EXCEPT ![k].high = Max(@, temp),
                                 ![k].low = Min(@, temp)]

forecast_list_uncapped(items, weekday) ==
    LET days == forecast_days(truncate(items, ForecastSlice), weekday)
    IN [i \in 1..Len(days) |->
           [day |-> days[i].day, high |-> days[i].high, low |-> days[i].low]]

\* forecast_list of the live path: day, high and low of the first five
\* days (icon, description and the bar range are left out).
forecast_list(items, weekday) ==
    LET days == truncate(forecast_days(truncate(items, ForecastSlice), weekday),
                         ForecastDays)
    IN [i \in 1..Len(days) |->
           [day |-> days[i].day, high |-> days[i].high, low |-> days[i].low]]

\* ------------------------------------------------------------------------
\* list.sort(key=...)
\* ------------------------------------------------------------------------
\* The stable ascending sort of s, Less being the order of the keys: an
\* element goes after the elements with a smaller key and the earlier
\* elements with an equal key.
stable_sort(s, Less(_, _)) ==
    LET rank(i) == Cardinality({j \in 1..Len(s) :
                                   \/ Less(s[j], s[i])
                                   \/ ~Less(s[i], s[j]) /\ j < i}) + 1
    IN [p \in 1..Len(s) |-> s[CHOOSE i \in 1..Len(s) : rank(i) = p]]

\* ------------------------------------------------------------------------
\* CanvasService.fetch_assignments and
\* DashboardGenerator.fetch_canvas_assignments
\* ------------------------------------------------------------------------
\* canvas.days_ahead, and the window in hours.
DaysAhead == 14

\* An assignment of a course's answer.  due is "none" without due_at,
\* "invalid" when it is not an ISO timestamp, "utc" for a timestamp with a
\* UTC offset (Canvas sends '...Z') and "naive" for one without; at is the
\* time of due_at in hours after now.
Assignment(name, due, at) == [name |-> name, due |-> due, at |-> at]

\* _make_request answers None after a RequestException.
NoAnswer == [failed |-> TRUE, items |-> <<>>]

CourseAnswer(items) == [failed |-> FALSE, items |-> items]

\* now <= due_date <= end_date between the naive datetime.now() and an
\* aware due_date raises TypeError, which except ValueError lets through.
assignments_raise(answers) ==
    \E c \in 1..Len(answers) :
        \E i \in 1..Len(answers[c].items) : answers[c].items[i].due = "utc"

RECURSIVE all_assignments(_, _)
\* The loops over the courses and their assignments: the assignments due
\* within [now, now + days_ahead], in the order met.
all_assignments(answers, n) ==
    IF n = 0 THEN <<>>
    ELSE LET items == answers[n].items
             kept == SelectSeq(items,
                         LAMBDA a : /\ a.due = "naive"
                                    /\ 0 <= a.at /\ a.at <= DaysAhead * 24)
         IN all_assignments(answers, n - 1) \o
                [i \in 1..Len(kept) |->
                    [title |-> kept[i].name, course |-> n,
                     due_date_full |-> kept[i].at]]

due_date_less(a, b) == a.due_date_full < b.due_date_full

\* fetch_assignments with an API key and use_mock_data false: the sorted
\* list cut to max_assignments, unless the comparison raises.
fetch_assignments(answers, max_assignments) ==
    IF assignments_raise(answers) THEN [raised |-> TRUE, items |-> <<>>]
    ELSE [raised |-> FALSE,
          items |-> truncate(stable_sort(all_assignments(answers, Len(answers)),
                                         due_date_less),
                             max_assignments)]

\* The wrapper logs any exception and returns [].
fetch_canvas_assignments(answers, max_assignments) ==
    fetch_assignments(answers, max_assignments).items

\* ------------------------------------------------------------------------
\* CanvasService.fetch_grading_queue: the sorted queue
\* ------------------------------------------------------------------------
\* Hours of a year; hour h counted from the start of year 0 lies in year
\* h \div HoursPerYear.
HoursPerYear == 8760

\* due_date.strftime('%m/%d %H:%M') as the hour within the year: the
\* strings compare as these numbers do.  'No due date' is greater than
\* every such string.
NoDueDate == HoursPerYear

due_date_str(due, at) == IF due = "ok" THEN at % HoursPerYear ELSE NoDueDate

\* priority_order.get(x['priority'], 3)
priority_order(priority) ==
    IF priority = "high" THEN 0
    ELSE IF priority = "medium" THEN 1
    ELSE IF priority = "low" THEN 2
    ELSE 3

RECURSIVE all_grading_items(_, _, _)
\* The loops over the courses and their assignments: one item per
\* assignment with needs_grading_count > 0.  now and the due times are
\* hours counted from the start of year 0, in UTC.
all_grading_items(answers, n, now) ==
    IF n = 0 THEN <<>>
    ELSE LET kept == SelectSeq(answers[n].items,
                               LAMBDA a : a.needs_grading > 0)
         IN all_grading_items(answers, n - 1, now) \o
                [i \in 1..Len(kept) |->
                    [title |-> kept[i].name, course |-> n,
                     due_date |-> due_date_str(kept[i].due, kept[i].at),
                     priority |-> grading_priority(kept[i].due, now % 24, 0,
                                                   kept[i].at - now)]]

\* key=lambda x: (priority_order.get(x['priority'], 3), x['due_date'])
grading_key_less(a, b) ==
    \/ priority_order(a.priority) < priority_order(b.priority)
    \/ /\ priority_order(a.priority) = priority_order(b.priority)
       /\ a.due_date < b.due_date

\* fetch_grading_queue with an API key and use_mock_data false.
grading_queue(answers, now, max_items) ==
    truncate(stable_sort(all_grading_items(answers, Len(answers), now),
                         grading_key_less),
             max_items)

\* ------------------------------------------------------------------------
\* CanvasService.fetch_student_engagement
\* ------------------------------------------------------------------------
\* A submission with its missing and late marks.
Submission(missing, late) == [missing |-> missing, late |-> late]

RECURSIVE count_submissions_independent(_)
count_submissions_independent(submissions) ==
    IF submissions = <<>> THEN [missing |-> 0, late |-> 0]
    ELSE LET n == count_submissions_independent(Tail(submissions))
             submission == Head(submissions)
         IN [missing |-> n.missing + (IF submission.missing THEN 1 ELSE 0),
             late |-> n.late + (IF submission.late THEN 1 ELSE 0)]

RECURSIVE count_submissions(_)
\* if submission.get('missing'): missing_count += 1
\* elif submission.get('late'): late_count += 1
count_submissions(submissions) ==
    IF submissions = <<>> THEN [missing |-> 0, late |-> 0]
    ELSE LET n == count_submissions(Tail(submissions))
             submission == Head(submissions)
         IN IF submission.missing THEN [n EXCEPT !.missing = @ + 1]
            ELSE IF submission.late THEN [n EXCEPT !.late = @ + 1]
            ELSE n

RECURSIVE at_risk_students(_, _)
\* The loops over the courses and their students, students being the
\* answers to the submissions requests in the order the students are met:
\* a student whose request failed or answered nothing is skipped, one with
\* a risk indicator is appended.
at_risk_students(students, n) ==
    IF n = 0 THEN <<>>
    ELSE LET rest == at_risk_students(students, n - 1)
             counts == count_submissions(students[n].items)
         IN IF counts.missing >= 2 \/ counts.late >= 3
            THEN Append(rest, [name |-> n,
                               missing_assignments |-> counts.missing,
                               late_assignments |-> counts.late])
            ELSE rest

\* key=lambda x: (x['missing_assignments'], x['late_assignments']),
\* reverse=True
more_at_risk(a, b) ==
    \/ a.missing_assignments > b.missing_assignments
    \/ /\ a.missing_assignments = b.missing_assignments
       /\ a.late_assignments > b.late_assignments

\* fetch_student_engagement with an API key and use_mock_data false.
student_engagement(students, max_students) ==
    truncate(stable_sort(at_risk_students(students, Len(students)),
                         more_at_risk),
             max_students)

\* ------------------------------------------------------------------------
\* SpecCalc: each computation called once on every input
\* ------------------------------------------------------------------------
Call(fn, args) == [fn |-> fn, args |-> args]

WindCalls ==
    {Call(f, <<s, u>>) : f \in {"fetch_weather", "_fetch_weather_fallback"},
                         s \in 0..MaxWindTenths, u \in WindUnits}

ClockCalls ==
    {Call(f, <<m, h>>) :
        f \in {"_calculate_mock_uv_index", "_get_mock_air_quality"},
        m \in Months, h \in Hours}

PriorityCalls ==
    {Call("fetch_grading_queue", <<due, h, z, dl>>) :
        due \in DueKinds, h \in {0, 6, 12, 18, 23}, z \in UtcOffsets,
        dl \in (0 - MaxOverdueHours)..MaxDueHours}

TravelCalls ==
    {Call("get_travel_times", <<30 * k>>) : k \in 0..MaxHalfMinutes}

MonthCalls ==
    {Call("month_days", <<y, m, dd>>) :
        y \in FirstGridYear..(FirstGridYear + GridYears - 1),
        m \in Months, dd \in {1, 28}}

FlatCalls ==
    {Call("fetch_calendar_events", <<a, b>>) :
        a \in OrderedAnswers(MaxEventsPerCalendar), b \in OrderedAnswers(1)}

\* Forecast answers: every short list over today and tomorrow, and an
\* entry of today followed by one entry per day for five days or more.
ForecastCalls ==
    {Call("fetch_forecast", <<items, w>>) :
        items \in SeqsUpTo({ForecastEntry(dd, t) : dd \in 0..1, t \in ForecastTemps},
                           MaxForecastEntries)
                  \cup {[i \in 1..(n + 1) |->
                            IF i = 1 THEN ForecastEntry(0, t)
                            ELSE ForecastEntry(i - 2, u)] :
                           n \in ForecastDays..MaxForecastDays,
                           t \in ForecastTemps, u \in ForecastTemps},
        w \in {0, 5, 6}}

\* Two configured courses: the first answers up to MaxCourseAssignments
\* assignments, the second fails or answers at most one.
AssignmentCalls ==
    LET Assignments == {Assignment(1, dk, at) :
                           dk \in {"utc", "naive"},
                           at \in {-1, 0, 48, DaysAhead * 24, DaysAhead * 24 + 1}}
                       \cup {Assignment(1, dk, 0) : dk \in {"none", "invalid"}}
        Numbered(s) == [i \in 1..Len(s) |-> [s[i] EXCEPT !.name = i]]
    IN {Call("fetch_canvas_assignments",
             <<CourseAnswer(Numbered(a)), b>>) :
           a \in SeqsUpTo(Assignments, MaxCourseAssignments),
           b \in {NoAnswer} \cup
                 {CourseAnswer(s) : s \in SeqsUpTo(Assignments, 1)}}

\* Two configured courses, in the middle of a year and at noon of its last
\* day; the items are due a day ago or one, two or four days ahead.
GradingCalls ==
    LET Items == {[name |-> 1, needs_grading |-> 0, due |-> "ok", at |-> 24]}
                 \cup {[name |-> 1, needs_grading |-> 1, due |-> dk, at |-> 0] :
                          dk \in {"none", "invalid"}}
                 \cup {[name |-> 1, needs_grading |-> 1, due |-> "ok", at |-> at] :
                          at \in {-24, 24, 48, 96}}
        Placed(s, now) ==
            [i \in 1..Len(s) |->
                [s[i] EXCEPT !.name = i,
                             !.at = IF s[i].due = "ok" THEN now + @ ELSE 0]]
    IN {Call("fetch_canvas_grading_queue",
             <<now, <<CourseAnswer(Placed(a, now)),
                      IF b = <<>> THEN NoAnswer
                      ELSE CourseAnswer(Placed(b, now))>> >>) :
           now \in {4380, HoursPerYear - 12},
           a \in SeqsUpTo(Items, MaxCourseGradingItems),
           b \in SeqsUpTo(Items, 1)}

\* One or two students; a student's submissions are up to one marked
\* missing and late, up to two marked missing, up to three marked late and
\* one unmarked, or the request for them fails.
EngagementCalls ==
    LET Marked(b, m, l) ==
            [i \in 1..b |-> Submission(TRUE, TRUE)] \o
            [i \in 1..m |-> Submission(TRUE, FALSE)] \o
            [i \in 1..l |-> Submission(FALSE, TRUE)] \o
            <<Submission(FALSE, FALSE)>>
        Answers == {NoAnswer} \cup
                   {CourseAnswer(Marked(b, m, l)) :
                       b \in 0..1, m \in 0..2, l \in 0..3}
    IN {Call("fetch_student_engagement", s) : s \in SeqsUpTo(Answers, 2) \ {<<>>}}

\* One call of one computation on one input.
CalcInit ==
    /\ \/ call \in WindCalls
       \/ call \in ClockCalls
       \/ call \in PriorityCalls
       \/ call \in TravelCalls
       \/ call \in MonthCalls
       \/ call \in FlatCalls
       \/ call \in ForecastCalls
       \/ call \in AssignmentCalls
       \/ call \in GradingCalls
       \/ call \in EngagementCalls
    /\ result = NotReturned
    /\ SunIdle /\ CacheIdle /\ CalIdle /\ AgendaIdle /\ CycleIdle
    /\ TrafficIdle /\ LoopIdle

Calc(fn, value) ==
    /\ call.fn = fn
    /\ ~result.done
    /\ result' = Returned(value)
    /\ UNCHANGED call
    /\ UNCHANGED callOthers

CalcWeatherWind ==
    Calc("fetch_weather", fetch_weather_wind(call.args[1], call.args[2]))

CalcFallbackWind ==
    Calc("_fetch_weather_fallback",
         fetch_weather_fallback_wind(call.args[1], call.args[2]))

CalcUvIndex ==
    Calc("_calculate_mock_uv_index",
         calculate_mock_uv_index(call.args[1], call.args[2]))

CalcAirQuality ==
    Calc("_get_mock_air_quality",
         get_mock_air_quality(call.args[1], call.args[2]))

CalcGradingPriority ==
    Calc("fetch_grading_queue",
         grading_priority(call.args[1], call.args[2], call.args[3],
                          call.args[4]))

CalcTravelTime ==
    Calc("get_travel_times", travel_time(call.args[1]))

CalcMonthDays ==
    Calc("month_days",
         month_days(call.args[1], call.args[2], call.args[3]))

CalcFlatList ==
    Calc("fetch_calendar_events",
         fetch_calendar_events(LiveTwoCalendars, call.args, NoFile, 0,
                               "ok").result.events)

CalcForecast ==
    Calc("fetch_forecast", forecast_list(call.args[1], call.args[2]))

CalcAssignments ==
    Calc("fetch_canvas_assignments",
         fetch_canvas_assignments(call.args, MaxAssignments))

CalcGradingQueue ==
    Calc("fetch_canvas_grading_queue",
         grading_queue(call.args[2], call.args[1], MaxGradingItems))

CalcEngagement ==
    Calc("fetch_student_engagement",
         student_engagement(call.args, MaxAtRiskStudents))

CalcNext ==
    \/ CalcWeatherWind
    \/ CalcFallbackWind
    \/ CalcUvIndex
    \/ CalcAirQuality
    \/ CalcGradingPriority
    \/ CalcTravelTime
    \/ CalcMonthDays
    \/ CalcFlatList
    \/ CalcForecast
    \/ CalcAssignments
    \/ CalcGradingQueue
    \/ CalcEngagement

SpecCalc == CalcInit /\ [][CalcNext]_vars

\* ------------------------------------------------------------------------
\* SpecTraffic: MapboxService.get_travel_times and its in-process cache
\* ------------------------------------------------------------------------
SecondsPerDay == 86400

\* self.cache_duration
CacheDuration == 300

\* (datetime.now() - self._cache_time).seconds: the seconds field of the
\* timedelta, which leaves out its days.
timedelta_seconds(now, then) == (now - then) % SecondsPerDay

\* then = NoValue stands for _cache_time is None.
is_cache_valid(now, then) ==
    IF then = NoValue THEN FALSE
    ELSE timedelta_seconds(now, then) < CacheDuration

\* Answers of the Matrix API: durations, a body without durations, a
\* RequestException, or a body of another shape.
TrafficAnswers == {"ok", "no_durations", "error", "malformed"}

\* Time between two calls.
TrafficSteps == {100, 200, 300, SecondsPerDay}

\* Calls are explored in the quarter of an hour after the start of the
\* process and after each whole day.
TrafficWindow == 900

MaxTrafficNow == MaxTrafficDays * SecondsPerDay + TrafficWindow

\* The destinations argument: no destination, or one of two lists.
DestinationLists == {<<>>, <<"Work">>, <<"School">>}

\* The list built from the durations requested at time now: one entry per
\* destination.
travel_times(destinations, now) ==
    [i \in 1..Len(destinations) |->
        [destination |-> destinations[i], traffic_status |-> "Traffic",
         fetched |-> now]]

\* The list returned when nothing was ever stored.
Fallback ==
    <<[destination |-> "Destination",
       traffic_status |-> "Service unavailable", fetched |-> NoValue]>>

_get_fallback(cache) == Fallback

_get_cached_or_fallback(cache) ==
    IF cache.has_travel_times THEN cache.travel_times ELSE Fallback

TravelAnswer(answer, requested, stored, value) ==
    [answer |-> answer, requested |-> requested, stored |-> stored,
     value |-> value]

\* What get_travel_times returns ("cached" the valid cache, "empty" an
\* empty list, "fresh" the processed durations, "stale" the cache kept
\* after a failure, "placeholder" the fallback entry), whether it issued a
\* request and whether it stored its result.
get_travel_times(now, then, cache, destinations, resp) ==
    IF is_cache_valid(now, then)
    THEN TravelAnswer("cached", FALSE, FALSE, cache.travel_times)
    ELSE IF destinations = <<>>
    THEN TravelAnswer("empty", FALSE, FALSE, <<>>)
    ELSE IF resp = "ok"
    THEN TravelAnswer("fresh", TRUE, TRUE, travel_times(destinations, now))
    ELSE IF resp = "no_durations"
    THEN TravelAnswer("empty", TRUE, FALSE, <<>>)
    ELSE TravelAnswer(IF cache.has_travel_times THEN "stale"
                      ELSE "placeholder",
                      TRUE, FALSE, _get_cached_or_fallback(cache))

TrafficInit ==
    /\ traffic_now = 0
    /\ cache_time = NoValue
    /\ mapbox_cache = EmptyCache
    /\ travel_call = NoTravelCall
    /\ SunIdle /\ CacheIdle /\ CalIdle /\ AgendaIdle /\ CycleIdle
    /\ CallIdle /\ LoopIdle

TrafficTick ==
    /\ \E d \in TrafficSteps :
          /\ traffic_now + d <= MaxTrafficNow
          /\ (traffic_now + d) % SecondsPerDay <= TrafficWindow
          /\ traffic_now' = traffic_now + d
    /\ UNCHANGED <<cache_time, mapbox_cache, travel_call>>
    /\ UNCHANGED trafficOthers

GetTravelTimes ==
    /\ \E destinations \in DestinationLists, resp \in TrafficAnswers :
          LET out == get_travel_times(traffic_now, cache_time, mapbox_cache,
                                      destinations, resp)
          IN  /\ travel_call' =
                    [answer |-> out.answer, requested |-> out.requested,
                     age |-> IF cache_time = NoValue THEN NoValue
                             ELSE traffic_now - cache_time,
                     resp |-> IF out.requested THEN resp ELSE "none",
                     destinations |-> destinations,
                     value |-> out.value]
              /\ cache_time' = IF out.stored THEN traffic_now ELSE cache_time
              /\ mapbox_cache' =
                    IF out.stored
                    THEN [has_travel_times |-> TRUE,
                          travel_times |-> out.value]
                    ELSE mapbox_cache
    /\ UNCHANGED traffic_now
    /\ UNCHANGED trafficOthers

TrafficNext == TrafficTick \/ GetTravelTimes

SpecTraffic == TrafficInit /\ [][TrafficNext]_vars

\* ------------------------------------------------------------------------
\* SpecLoop: main in loop mode
\* ------------------------------------------------------------------------
\* --interval: the default, a short one, and a negative one, which
\* time.sleep rejects with ValueError.
Intervals == {900, 30, -1}

\* time.sleep(60) of the except clause of the loop.
RetryWait == 60

\* The steps of generate_dashboard: its fetches, then assembling, rendering
\* and writing the page.
CycleSteps == Len(Sources) + 3

LoopInit ==
    /\ loop_pc = "generate"
    /\ loop_step = 0
    /\ cycles = 1
    /\ args_interval \in Intervals
    /\ success = "none"
    /\ wait = NoValue
    /\ signalled = FALSE
    /\ stopped_in = "none"
    /\ exit_status = NoValue
    /\ SunIdle /\ CacheIdle /\ CalIdle /\ AgendaIdle /\ CycleIdle
    /\ CallIdle /\ TrafficIdle

\* One step of generate_dashboard completes.
GenerateStep ==
    /\ loop_pc = "generate"
    /\ loop_step < CycleSteps
    /\ loop_step' = loop_step + 1
    /\ UNCHANGED <<loop_pc, cycles, args_interval, success, wait, signalled,
                   stopped_in, exit_status>>
    /\ UNCHANGED loopOthers

\* A step raises an exception: generate_dashboard catches it and returns
\* False.
GenerateFails ==
    /\ loop_pc = "generate"
    /\ loop_step < CycleSteps
    /\ loop_pc' = "returned"
    /\ success' = "False"
    /\ UNCHANGED <<loop_step, cycles, args_interval, wait, signalled,
                   stopped_in, exit_status>>
    /\ UNCHANGED loopOthers

\* The page is written: generate_dashboard returns True.
GenerateSucceeds ==
    /\ loop_pc = "generate"
    /\ loop_step = CycleSteps
    /\ loop_pc' = "returned"
    /\ success' = "True"
    /\ UNCHANGED <<loop_step, cycles, args_interval, wait, signalled,
                   stopped_in, exit_status>>
    /\ UNCHANGED loopOthers

Sleep_retry_on_failure ==
    /\ loop_pc = "returned"
    /\ IF args_interval >= 0 /\ success = "True"
       THEN loop_pc' = "sleep" /\ wait' = args_interval
       ELSE loop_pc' = "retry_sleep" /\ wait' = RetryWait
    /\ UNCHANGED <<loop_step, cycles, args_interval, success, signalled,
                   stopped_in, exit_status>>
    /\ UNCHANGED loopOthers

Sleep_stop_on_failure ==
    /\ loop_pc = "returned"
    /\ IF success = "False"
       THEN loop_pc' = "stopped" /\ wait' = wait
       ELSE IF args_interval >= 0
       THEN loop_pc' = "sleep" /\ wait' = args_interval
       ELSE loop_pc' = "retry_sleep" /\ wait' = RetryWait
    /\ UNCHANGED <<loop_step, cycles, args_interval, success, signalled,
                   stopped_in, exit_status>>
    /\ UNCHANGED loopOthers

\* The outcome is logged and time.sleep(args.interval) called, whatever
\* generate_dashboard returned; the ValueError of a negative interval is
\* caught by the except clause of the loop, which calls time.sleep(60).
Sleep ==
    /\ loop_pc = "returned"
    /\ IF args_interval >= 0
       THEN loop_pc' = "sleep" /\ wait' = args_interval
       ELSE loop_pc' = "retry_sleep" /\ wait' = RetryWait
    /\ UNCHANGED <<loop_step, cycles, args_interval, success, signalled,
                   stopped_in, exit_status>>
    /\ UNCHANGED loopOthers

\* The sleep ends and the next cycle starts.
WakeUp ==
    /\ loop_pc \in {"sleep", "retry_sleep"}
    /\ cycles < MaxCycles
    /\ loop_pc' = "generate"
    /\ loop_step' = 0
    /\ cycles' = cycles + 1
    /\ wait' = NoValue
    /\ UNCHANGED <<args_interval, success, signalled, stopped_in,
                   exit_status>>
    /\ UNCHANGED loopOthers

Signal_deferred ==
    /\ loop_pc # "stopped"
    /\ ~signalled
    /\ signalled' = TRUE
    /\ IF loop_pc \in {"sleep", "retry_sleep"}
       THEN /\ stopped_in' = loop_pc
            /\ loop_pc' = "stopped"
            /\ exit_status' = 0
       ELSE UNCHANGED <<loop_pc, stopped_in, exit_status>>
    /\ UNCHANGED <<loop_step, cycles, args_interval, success, wait>>
    /\ UNCHANGED loopOthers

\* SIGTERM or SIGINT is delivered: signal_handler runs in the main thread
\* at the point reached and calls sys.exit(0); SystemExit is not an
\* Exception, so no except clause of generate_dashboard or of the loop
\* catches it.
Signal ==
    /\ loop_pc # "stopped"
    /\ ~signalled
    /\ signalled' = TRUE
    /\ stopped_in' = loop_pc
    /\ loop_pc' = "stopped"
    /\ exit_status' = 0
    /\ UNCHANGED <<loop_step, cycles, args_interval, success, wait>>
    /\ UNCHANGED loopOthers

LoopNext ==
    \/ GenerateStep
    \/ GenerateFails
    \/ GenerateSucceeds
    \/ Sleep
    \/ WakeUp
    \/ Signal

SpecLoop == LoopInit /\ [][LoopNext]_vars

\* Every step of generate_dashboard returns or raises, the loop goes on to
\* its sleep, and a sleep ends; a signal may or may not arrive.
LoopFairness ==
    /\ WF_vars(GenerateStep \/ GenerateFails \/ GenerateSucceeds)
    /\ WF_vars(Sleep)
    /\ WF_vars(WakeUp)

SpecLoopFair == SpecLoop /\ LoopFairness

\* ------------------------------------------------------------------------
\* SpecWeek: DashboardGenerator.fetch_week_calendar_events
\* ------------------------------------------------------------------------
DaysPerWeek == 7

\* Events of a week query: day is the offset of the start date from the
\* Monday of the current week; the API may answer with events that start
\* before Monday or after Sunday.
WeekRawEvents == [summary : {1}, day : {-1, 0, 6, 7}, time : {AllDay, 540}]

WeekResponses ==
    {ApiError} \cup
    {ApiOk(items) : items \in SeqsUpTo(WeekRawEvents, MaxWeekEvents)}

\* The week query is made whatever test_mode is.
WeekResponsesFor(cfg) ==
    {r \in [1..Len(cfg.calendars) -> WeekResponses \cup {NotAsked}] :
        \A i \in 1..Len(cfg.calendars) :
            /\ (r[i] = NotAsked) <=>
                  ~(i \in calendars_queried(cfg) /\ calendar_live(cfg))
            /\ i > 1 => Len(r[i].items) <= 1}

\* The events of items that start on day d and are all-day (all_day TRUE)
\* or timed, in the order of the answer.
week_day_events(items, cal_id, d, all_day) ==
    LET kept == SelectSeq(items,
                          LAMBDA e : e.day = d /\ ((e.time = AllDay) = all_day))
    IN  [i \in 1..Len(kept) |-> format_event(kept[i], cal_id)]

\* GoogleCalendarService.get_week_events: the week as a dictionary of seven
\* days, day i of the sequence being Monday + (i - 1); an empty dictionary
\* when the service is missing or anything raises.  An event whose date is
\* not a key of the week is left out.
get_week_events(service, cal_id, resp) ==
    IF ~service \/ resp.error THEN <<>>
    ELSE [i \in 1..DaysPerWeek |->
            [all_day |-> week_day_events(resp.items, cal_id, i - 1, TRUE),
             timed   |-> week_day_events(resp.items, cal_id, i - 1, FALSE)]]

EmptyDay == [all_day |-> <<>>, timed |-> <<>>]

\* for date_key, day_data in cal_week_events.items(): a day missing from
\* the combined week is created with empty lists, then both lists are
\* extended.
merge_week(combined, cal_week) ==
    IF cal_week = <<>> THEN combined
    ELSE [i \in 1..DaysPerWeek |->
            LET day == IF combined = <<>> THEN EmptyDay ELSE combined[i]
            IN  [all_day |-> day.all_day \o cal_week[i].all_day,
                 timed   |-> day.timed \o cal_week[i].timed]]

RECURSIVE fetch_week_calendars(_, _, _)
\* The loop over calendars.items(), combined_week_events starting as {}.
fetch_week_calendars(cfg, resps, n) ==
    IF n = 0 THEN <<>>
    ELSE LET info == cfg.calendars[n]
             rest == fetch_week_calendars(cfg, resps, n - 1)
         IN IF info.enabled
            THEN merge_week(rest, get_week_events(cfg.calendar_service,
                                                  info.id, resps[n]))
            ELSE rest

\* mock_week_events: seven days, Team Standup, Project Review and Holiday
\* today, Client Call tomorrow when tomorrow is in the week.
MockWeek(weekday) ==
    [i \in 1..DaysPerWeek |->
        IF i - 1 = weekday
        THEN [all_day |-> <<[summary |-> 105, start |-> AllDay,
                             calendar_id |-> 0]>>,
              timed   |-> <<[summary |-> 101, start |-> 540,
                             calendar_id |-> 0],
                            [summary |-> 102, start |-> 840,
                             calendar_id |-> 0]>>]
        ELSE IF i - 1 = weekday + 1
        THEN [all_day |-> <<>>,
              timed   |-> <<[summary |-> 103, start |-> 960,
                             calendar_id |-> 0]>>]
        ELSE EmptyDay]

WeekResult(src, days) == [source |-> src, days |-> days]

\* fetch_week_calendar_events with its value: weekday is now.weekday().
week_calendar_events(cfg, resps, weekday) ==
    IF calendar_live(cfg)
    THEN IF calendars_raise(cfg)
         THEN WeekResult("mock", MockWeek(weekday))
         ELSE WeekResult("live",
                         fetch_week_calendars(cfg, resps, Len(cfg.calendars)))
    ELSE WeekResult("mock", MockWeek(weekday))

WeekCalls ==
    UNION {{Call("fetch_week_calendar_events", <<cfg, resps, wd>>) :
                resps \in WeekResponsesFor(cfg), wd \in {0, 6}} :
            cfg \in CalConfigs}

\* The flat list, the week and the agenda fetched with two calendars of
\* which at least one is enabled.  Each view gets an answer per calendar:
\* the query fails, or answers no event or one event of today at 09:00; the
\* answer of a disabled calendar is what the API would say if asked.
ViewCalls ==
    LET Answers == {ApiError, ApiOk(<<>>),
                    ApiOk(<<[summary |-> 1, day |-> 0, time |-> 540]>>)}
        Configs == {[LiveTwoCalendars EXCEPT !.calendars = c] :
                       c \in {<<Cal(1, TRUE, TRUE), Cal(2, TRUE, TRUE)>>,
                              <<Cal(1, TRUE, TRUE), Cal(2, FALSE, TRUE)>>,
                              <<Cal(1, FALSE, TRUE), Cal(2, TRUE, TRUE)>>}}
    IN {Call("calendar_views", <<cfg, flat, week, agenda>>) :
           cfg \in Configs, flat \in [1..2 -> Answers],
           week \in [1..2 -> Answers], agenda \in [1..2 -> Answers]}

WeekInit ==
    /\ call \in WeekCalls \/ call \in ViewCalls
    /\ result = NotReturned
    /\ SunIdle /\ CacheIdle /\ CalIdle /\ AgendaIdle /\ CycleIdle
    /\ TrafficIdle /\ LoopIdle

WeekFetch ==
    Calc("fetch_week_calendar_events",
         week_calendar_events(call.args[1], call.args[2], call.args[3]))

\* generate_dashboard: events, week_events and agenda_events.
WeekViews ==
    Calc("calendar_views",
         [events |-> fetch_calendar_events(call.args[1], call.args[2], NoFile,
                                           0, "ok").result,
          week_events |-> week_calendar_events(call.args[1], call.args[3], 0),
          agenda_events |-> fetch_agenda_events(call.args[1], call.args[4])])

WeekNext == WeekFetch \/ WeekViews

SpecWeek == WeekInit /\ [][WeekNext]_vars

\* ------------------------------------------------------------------------
\* Claims
\* ------------------------------------------------------------------------

\* C9 (as stated): with sunrise and sunset available the position is exactly
\* 0 at or before sunrise and exactly 100 at or after sunset, the sunrise and
\* sunset minutes included.
C9_AsStated ==
    (weather.has_sun /\ sun_position # NoValue) =>
        /\ (current_time <= weather.sunrise => sun_position = 0)
        /\ (current_time >= weather.sunset => sun_position = 100)

\* C9 (amended): the position is exactly 0 strictly before sunrise and
\* exactly 100 strictly after sunset (when not before sunrise); at the
\* sunrise minute it is 5 and at the sunset minute 95 when sunrise < sunset.
C9_SunEndpoints ==
    (weather.has_sun /\ sun_position # NoValue) =>
        /\ (current_time < weather.sunrise => sun_position = 0)
        /\ (current_time > weather.sunset /\ current_time >= weather.sunrise
               => sun_position = 100)
        /\ (weather.sunrise < weather.sunset /\ current_time = weather.sunrise
               => sun_position = 5)
        /\ (weather.sunrise < weather.sunset /\ current_time = weather.sunset
               => sun_position = 95)

C9_Witness ==
    /\ weather.has_sun
    /\ weather.sunrise < weather.sunset
    /\ current_time = weather.sunset
    /\ sun_position = 95

\* C10: for fixed sunrise < sunset the position is non-decreasing in the
\* current minute between sunrise and sunset.
C10_SunMonotone ==
    (/\ weather.has_sun
     /\ weather.sunrise < weather.sunset
     /\ prev_time # NoValue
     /\ weather.sunrise <= prev_time
     /\ prev_time <= current_time
     /\ current_time <= weather.sunset)
        => prev_position <= sun_position

C10_Witness ==
    /\ weather.has_sun
    /\ weather.sunrise < prev_time
    /\ prev_time < current_time
    /\ current_time < weather.sunset
    /\ 5 < prev_position
    /\ prev_position < sun_position
    /\ sun_position < 95

LiveFetchFailed ==
    /\ events.source # "none"
    /\ ~config.test_mode
    /\ calendar_live(config)
    /\ calendars_queried(config) # {}
    /\ \A i \in calendars_queried(config) : cal_responses[i].error

\* C3 (as stated): with the live calendar configured, a fetch whose API
\* queries fail returns the cached events when the cache file is less than
\* 24 hours old and the mock events otherwise, never an empty list.
C3_AsStated ==
    LiveFetchFailed =>
        events.events =
            IF load_calendar_cache(cache_before, clock) # <<>>
            THEN load_calendar_cache(cache_before, clock)
            ELSE MockCalendarEvents

\* C5: whenever the cache file changes, the fetch that changed it took the
\* live branch outside test mode, returned a non-empty list made of events
\* the API answered in that fetch, and the file written holds exactly the
\* returned list with the current time.
C5_CacheWrittenOnlyFromLive ==
    [][cache_file' # cache_file =>
        /\ events'.source = "live"
        /\ ~config.test_mode
        /\ events'.events # <<>>
        /\ cache_file'.state = "json" =>
              /\ cache_file'.events = events'.events
              /\ cache_file'.timestamp = clock'
        /\ \A k \in 1..Len(events'.events) :
              \E i \in calendars_queried(config) :
                  /\ ~cal_responses'[i].error
                  /\ \E j \in 1..Len(cal_responses'[i].items) :
                        format_event(cal_responses'[i].items[j],
                                     config.calendars[i].id)
                            = events'.events[k]]_vars

C5_Witness ==
    /\ events.source = "live"
    /\ cache_file.state = "json"
    /\ cache_before.state = "json"
    /\ cache_file # cache_before
    /\ cache_file.events = events.events
    /\ cache_file.timestamp = clock
    /\ clock > 0

\* Number of positions of bucket index k of the agenda that hold event ed.
AgendaOccurrences(ed, k) ==
    Cardinality({p \in 1..Len(agenda_events.events[k + 1]) :
                    agenda_events.events[k + 1][p] = ed})

\* C8: an event fetched for the agenda whose date is d days after today is
\* in bucket d exactly once when 0 <= d < 5, and in no other bucket; an
\* event with d < 0 or d >= 5 is in no bucket.
C8_AgendaBuckets ==
    agenda_events.source = "live" =>
        \A i \in 1..Len(agenda_responses) :
            \A j \in 1..Len(agenda_responses[i].items) :
                LET e  == agenda_responses[i].items[j]
                    ed == format_event(e, config.calendars[i].id)
                IN \A k \in 0..(AgendaDays - 1) :
                      AgendaOccurrences(ed, k) = IF e.day = k THEN 1 ELSE 0

C8_Witness ==
    /\ agenda_events.source = "live"
    /\ Len(agenda_responses) = 2
    /\ Len(agenda_responses[1].items) = 2
    /\ agenda_responses[1].items[1].day = AgendaDays
    /\ agenda_responses[1].items[2].day = AgendaDays - 1
    /\ Len(agenda_responses[2].items) = 1
    /\ agenda_responses[2].items[1].day = -1
    /\ Len(agenda_events.events[AgendaDays]) = 1
    /\ \A k \in 1..(AgendaDays - 1) : agenda_events.events[k] = <<>>

\* The sections have been fetched and template_data has been built.
Assembled == last.source \in {"assemble", "render", "write"}

\* C1 (as stated): no failure of a data source aborts a generation cycle:
\* every fetch returns instead of raising, so a cycle that ends has
\* returned True unless rendering or writing the page failed.
C1_AsStated ==
    /\ ~last.raised \/ last.source \in {"render", "write"}
    /\ pc = "done" =>
          cycle_result = "True" \/ last.source \in {"render", "write"}

\* C2 (as stated): every section handed to the renderer is non-null,
\* weather and forecast included.
C2_AsStated ==
    Assembled => \A s \in SourceSet : template_data[s] # "None"

\* The source is disabled or lacks its credentials.
Unconfigured(cfg, s) ==
    IF s \in {"weather", "forecast", "air_quality"}
    THEN ~cfg.weather_api_key
    ELSE IF s \in {"events", "week_events", "agenda_events"}
    THEN cfg.use_mock_data \/ ~cfg.calendar_service
    ELSE IF s = "traffic_data" THEN ~cfg.mapbox_service
    ELSE IF s = "articles" THEN FALSE
    ELSE cfg.canvas_use_mock \/ ~cfg.canvas_api_key

\* C6 (as stated): a source that is disabled or lacks credentials (weather,
\* forecast, air quality, calendar, Canvas, traffic) makes no network call
\* and contributes its mock (for traffic: fallback) dataset.
C6_AsStated ==
    \A s \in SourceSet :
        (Unconfigured(config, s) /\ template_data[s] # "unset") =>
            /\ s \notin net_calls
            /\ template_data[s] \in {"mock", "fallback"}

\* C7 (as stated): in test mode no source performs a live fetch and every
\* source that has a mock dataset contributes it (the week calendar, air
\* quality and the Canvas views included; the RSS feeds have none).
C7_AsStated ==
    config.test_mode =>
        /\ net_calls = {}
        /\ \A s \in SourceSet \ {"articles"} :
              template_data[s] \in {"unset", "mock"}

\* The computation fn has returned.
Done(fn) == call.fn = fn /\ result.done

\* C11 (as stated): in imperial mode wind_speed is the provider's speed
\* unchanged (one decimal) in mph, in metric mode the speed times 3.6
\* rounded to one decimal in km/h, for the record of the primary fetch as
\* for the record of the fallback fetch.
C11_AsStated ==
    (Done("fetch_weather") \/ Done("_fetch_weather_fallback")) =>
        LET speed == call.args[1]
            units == call.args[2]
        IN  /\ units = "imperial" =>
                  result.value = [wind_speed |-> speed, wind_unit |-> "mph"]
            /\ units = "metric" =>
                  result.value = [wind_speed |-> round_half_even(36 * speed, 10),
                                  wind_unit |-> "km/h"]

\* C12: for every month and hour _calculate_mock_uv_index returns an
\* integer between 0 and 11.
C12_UvInRange ==
    Done("_calculate_mock_uv_index") => result.value \in 0..11

\* Summer at solar noon: the largest index, int(8 * 1.2) = 9.
C12_Witness ==
    /\ Done("_calculate_mock_uv_index")
    /\ call.args = <<7, 13>>
    /\ result.value = 9

\* C13: the status label of the mock air quality agrees with its aqi:
\* Good iff aqi <= 50, Moderate iff 50 < aqi <= 100, Unhealthy for
\* Sensitive Groups iff 100 < aqi <= 150, Unhealthy iff aqi > 150.
C13_AqiStatus ==
    Done("_get_mock_air_quality") =>
        LET aqi == result.value.aqi
            status == result.value.status
        IN  /\ status = "Good" <=> aqi <= 50
            /\ status = "Moderate" <=> (50 < aqi /\ aqi <= 100)
            /\ status = "Unhealthy for Sensitive Groups" <=>
                  (100 < aqi /\ aqi <= 150)
            /\ status = "Unhealthy" <=> aqi > 150

\* Spring rush hour: int(40 * 1.3) = 52, just above the Good threshold.
C13_Witness ==
    /\ Done("_get_mock_air_quality")
    /\ call.args = <<4, 8>>
    /\ result.value = [status |-> "Moderate", aqi |-> 52]

C15_TrafficStatus ==
    Done("get_travel_times") =>
        LET minutes == result.value.duration_minutes
            status == result.value.traffic_status
        IN  /\ status = "Light traffic" <=> minutes <= 10
            /\ status = "Moderate traffic" <=> (10 < minutes /\ minutes <= 20)
            /\ status = "Heavy traffic" <=> (20 < minutes /\ minutes <= 30)
            /\ status = "Severe traffic" <=> minutes > 30

\* 1500 seconds are 25 minutes: heavy traffic.
C15_Witness ==
    /\ Done("get_travel_times")
    /\ call.args = <<1500>>
    /\ result.value = [duration_minutes |-> 25,
                       traffic_status |-> "Heavy traffic"]

\* C16 (as stated): a get_travel_times call is answered from the cache
\* without a request only if the entry was stored less than 300 seconds
\* earlier; an entry 300 seconds old or older, ages of more than a day
\* included, is expired.
C16_AsStated ==
    (travel_call.answer = "cached" /\ ~travel_call.requested) =>
        (travel_call.age # NoValue /\ travel_call.age < CacheDuration)

\* C17 (as stated): a termination signal takes effect only between
\* generation cycles; no cycle is interrupted while fetching or rendering.
C17_AsStated ==
    loop_pc = "stopped" => stopped_in \in {"returned", "sleep", "retry_sleep"}

\* C17 (amended): a termination signal takes effect at once, wherever the
\* process is: the handler exits with status 0 at the point reached, so a
\* cycle in progress is abandoned at its current step and a wait is cut
\* short.
C17_SignalStopsAtOnce ==
    /\ [](signalled => (loop_pc = "stopped" /\ exit_status = 0))
    /\ [][(signalled' /\ ~signalled) =>
             /\ loop_pc' = "stopped"
             /\ stopped_in' = loop_pc
             /\ loop_step' = loop_step
             /\ success' = success]_vars

\* The signal arrived in the middle of a cycle, which was abandoned.
C17_Witness ==
    /\ loop_pc = "stopped"
    /\ stopped_in = "generate"
    /\ 0 < loop_step /\ loop_step < CycleSteps
    /\ exit_status = 0

\* C18 (as stated): a cycle that fails is followed by the 60 s retry wait,
\* a cycle that succeeds by the configured interval.
C18_AsStated ==
    loop_pc \in {"sleep", "retry_sleep"} =>
        /\ success = "False" => (loop_pc = "retry_sleep" /\ wait = RetryWait)
        /\ (success = "True" /\ args_interval >= 0) =>
              (loop_pc = "sleep" /\ wait = args_interval)

\* C18 (amended): after every cycle, whether generate_dashboard returned
\* True or False, the loop waits the configured interval; the 60 s retry
\* wait is taken only when the loop body itself raises an exception (the
\* sleep rejecting a negative interval), and the next cycle follows it.
C18_WaitAfterCycle ==
    loop_pc \in {"sleep", "retry_sleep"} =>
        IF args_interval >= 0
        THEN loop_pc = "sleep" /\ wait = args_interval
        ELSE loop_pc = "retry_sleep" /\ wait = RetryWait

\* A failed cycle followed by the full interval.
C18_Witness ==
    /\ loop_pc = "sleep"
    /\ success = "False"
    /\ args_interval = 900
    /\ wait = 900

\* C19 (as stated): in the month grid the k leading slots before day 1
\* carry the last k days of the previous month in ascending order, the
\* trailing slots after the last day carry 1, 2, ..., exactly these slots
\* are flagged is_other_month, and the grid length is a multiple of 7.
C19_AsStated ==
    Done("month_days") =>
        LET year == call.args[1]
            month == call.args[2]
            grid == result.value
            k == first_weekday(year, month)
            n == days_in_month(year, month)
            last_of_prev == IF month = 1 THEN 31
                            ELSE days_in_month(year, month - 1)
        IN  /\ Len(grid) % 7 = 0
            /\ Len(grid) >= k + n
            /\ Len(grid) < k + n + 7
            /\ \A pos \in 1..Len(grid) :
                  /\ grid[pos].is_other_month <=> (pos <= k \/ pos > k + n)
                  /\ pos <= k => grid[pos].number = last_of_prev - k + pos
                  /\ (k < pos /\ pos <= k + n) => grid[pos].number = pos - k
                  /\ pos > k + n => grid[pos].number = pos - (k + n)

RECURSIVE WeekConcatenation(_, _, _, _, _)
\* The events of day d (all-day or timed) of the calendars 1..n that were
\* queried and answered, one calendar after the other, nothing removed.
WeekConcatenation(cfg, resps, n, d, all_day) ==
    IF n = 0 THEN <<>>
    ELSE WeekConcatenation(cfg, resps, n - 1, d, all_day) \o
            (IF resps[n].asked /\ ~resps[n].error
             THEN week_day_events(resps[n].items, cfg.calendars[n].id, d,
                                  all_day)
             ELSE <<>>)

\* C20 (as stated): fetch_week_calendar_events returns exactly 7 day
\* buckets, Monday to Sunday, each with an all_day and a timed list, for
\* every outcome of the per-calendar fetches (all succeed, some fail, all
\* fail, no enabled calendar); on the live path a bucket holds the
\* concatenation of the calendars' events of that day.
C20_AsStated ==
    Done("fetch_week_calendar_events") =>
        LET cfg == call.args[1]
            resps == call.args[2]
            days == result.value.days
        IN  /\ Len(days) = DaysPerWeek
            /\ result.value.source = "live" =>
                  \A i \in 1..Len(days) :
                      /\ days[i].all_day =
                            WeekConcatenation(cfg, resps, Len(cfg.calendars),
                                              i - 1, TRUE)
                      /\ days[i].timed =
                            WeekConcatenation(cfg, resps, Len(cfg.calendars),
                                              i - 1, FALSE)


\* C21 (as stated): the live flat list holds min(number of fetched events,
\* max_events_total) of the events the enabled calendars answered, in the
\* order of their start times (an all-day event starting with its day), and
\* no event left out starts before an event that is listed.
C21_AsStated ==
    Done("fetch_calendar_events") =>
        LET resps == call.args
            listed == result.value
            Fetched == {p \in (1..2) \X (1..MaxEventsPerCalendar) :
                           p[2] <= Len(resps[p[1]].items)}
            raw(p) == resps[p[1]].items[p[2]]
            shown(p) == format_event(raw(p), LiveTwoCalendars.calendars[p[1]].id)
            origin(k) == CHOOSE p \in Fetched : shown(p) = listed[k]
            Listed == {p \in Fetched : \E k \in 1..Len(listed) : shown(p) = listed[k]}
        IN  /\ Len(listed) = Min(Cardinality(Fetched), MaxEventsTotal)
            /\ \A k \in 1..Len(listed) : \E p \in Fetched : shown(p) = listed[k]
            /\ \A k, l \in 1..Len(listed) :
                  k < l => raw_start(raw(origin(k))) <= raw_start(raw(origin(l)))
            /\ \A p \in Listed, q \in Fetched \ Listed :
                  raw_start(raw(p)) <= raw_start(raw(q))

\* C22: the forecast holds one record per calendar day of the answer, in
\* the order the days are first met and at most five of them; a day's high
\* is the greatest and its low the least rounded temperature of its entries,
\* so low <= high; today is labelled TODAY and any other day by its weekday.
C22_ForecastDays ==
    Done("fetch_forecast") =>
        LET items == call.args[1]
            weekday == call.args[2]
            forecast == result.value
            First == {i \in 1..Len(items) :
                         \A j \in 1..(i - 1) : items[j].day # items[i].day}
            \* position in items of the first entry of the k-th day met
            first(k) == CHOOSE i \in First :
                            Cardinality({j \in First : j <= i}) = k
            Temps(dd) == {round_half_even(items[i].temp, 10) :
                             i \in {j \in 1..Len(items) : items[j].day = dd}}
        IN  /\ Len(forecast) = Min(Cardinality(First), 5)
            /\ \A k \in 1..Len(forecast) :
                  LET dd == items[first(k)].day
                  IN /\ forecast[k].high \in Temps(dd)
                     /\ forecast[k].low \in Temps(dd)
                     /\ \A t \in Temps(dd) :
                           forecast[k].low <= t /\ t <= forecast[k].high
                     /\ forecast[k].low <= forecast[k].high
                     /\ forecast[k].day =
                            IF dd = 0 THEN "TODAY"
                            ELSE DayNames[((weekday + dd) % 7) + 1]

\* A forecast of five days cut from an answer over seven days, whose
\* first day has two entries, -0.5 and 20.5 degrees, on a Sunday.
C22_Witness ==
    /\ Done("fetch_forecast")
    /\ Len(call.args[1]) = 8
    /\ Len(result.value) = 5
    /\ result.value[1] = [day |-> "TODAY", high |-> 20, low |-> 0]
    /\ result.value[2].day = "MON"

\* C23 (as stated): with Canvas configured the assignments returned are
\* those with a due timestamp from now to days_ahead days later, in
\* ascending order of due time, min(their number, max_assignments) of them,
\* and none that is left out is due before one that is returned.
C23_AsStated ==
    Done("fetch_canvas_assignments") =>
        LET answers == call.args
            listed == result.value
            InWindow == {p \in (1..2) \X (1..MaxCourseAssignments) :
                            /\ p[2] <= Len(answers[p[1]].items)
                            /\ answers[p[1]].items[p[2]].due \in {"utc", "naive"}
                            /\ 0 <= answers[p[1]].items[p[2]].at
                            /\ answers[p[1]].items[p[2]].at <= DaysAhead * 24}
            shown(p) == [title |-> answers[p[1]].items[p[2]].name,
                         course |-> p[1],
                         due_date_full |-> answers[p[1]].items[p[2]].at]
            Listed == {p \in InWindow :
                          \E k \in 1..Len(listed) : listed[k] = shown(p)}
        IN  /\ Len(listed) = Min(Cardinality(InWindow), MaxAssignments)
            /\ \A k \in 1..Len(listed) :
                  \E p \in InWindow : listed[k] = shown(p)
            /\ \A k, l \in 1..Len(listed) :
                  k < l => listed[k].due_date_full <= listed[l].due_date_full
            /\ \A p \in Listed, q \in InWindow \ Listed :
                  shown(p).due_date_full <= shown(q).due_date_full

\* C24 (as stated): the grading queue holds min(number of items needing
\* grading, max_grading_items) items, every high item before every medium
\* and every medium before every low one, and of two dated items of one
\* priority the one due earlier comes first, whatever their months and
\* years.
C24_AsStated ==
    Done("fetch_canvas_grading_queue") =>
        LET answers == call.args[2]
            queue == result.value
            Needing == {p \in (1..2) \X (1..MaxCourseGradingItems) :
                           /\ p[2] <= Len(answers[p[1]].items)
                           /\ answers[p[1]].items[p[2]].needs_grading > 0}
            origin(k) == answers[queue[k].course].items[queue[k].title]
        IN  /\ Len(queue) = Min(Cardinality(Needing), MaxGradingItems)
            /\ \A k, l \in 1..Len(queue) :
                  k < l =>
                      /\ priority_order(queue[k].priority)
                             <= priority_order(queue[l].priority)
                      /\ ( /\ queue[k].priority = queue[l].priority
                           /\ origin(k).due = "ok"
                           /\ origin(l).due = "ok" )
                         => origin(k).at <= origin(l).at

\* Number of the submissions of student i of the call that satisfy Is.
Marks(i, Is(_)) ==
    Cardinality({j \in 1..Len(call.args[i].items) : Is(call.args[i].items[j])})

C26_AsStated ==
    sun_position # NoValue =>
        LET elapsed == current_time - weather.sunrise
            duration == weather.sunset - weather.sunrise
            hour == current_time \div 60
        IN  /\ sun_position \in 0..100
            /\ ( /\ weather.has_sun
                 /\ weather.sunrise < weather.sunset
                 /\ weather.sunrise <= current_time
                 /\ current_time <= weather.sunset )
               => \E v \in 0..100 :
                     /\ 100 * elapsed - duration < v * duration
                     /\ v * duration < 100 * elapsed + duration
                     /\ sun_position = Max(5, Min(95, v))
            /\ ~weather.has_sun
               => IF hour < 6 THEN sun_position = 0
                  ELSE IF hour > 20 THEN sun_position = 100
                  ELSE \E v \in 0..100 :
                          /\ 100 * (hour - 6) - 14 < v * 14
                          /\ v * 14 < 100 * (hour - 6) + 14
                          /\ sun_position = v

\* The event of calendar j in answers resps, as the views show it, when
\* the calendar is enabled and answered one while the other calendar's
\* query failed or the other calendar is disabled.
Survivors(resps) ==
    {format_event(resps[j].items[1], call.args[1].calendars[j].id) :
        j \in {j \in 1..2 :
                  /\ call.args[1].calendars[j].enabled
                  /\ resps[j].items # <<>>
                  /\ \/ resps[3 - j].error
                     \/ ~call.args[1].calendars[3 - j].enabled}}

\* The events a sequence holds.
Held(s) == {s[k] : k \in 1..Len(s)}

\* The timed events of today (a Monday) in the week of the last call, which
\* has no days when every query of the week failed.
WeekToday ==
    IF result.value.week_events.days = <<>> THEN {}
    ELSE Held(result.value.week_events.days[1].timed)

\* C27: in the flat list, the week and the agenda, the events an enabled
\* calendar answered are in the result when the query of the other
\* calendar failed, and no view holds an event of a disabled calendar, whose
\* answer never matters.
C27_IndependentCalendars ==
    Done("calendar_views") =>
        LET cfg == call.args[1]
            views == result.value
            Disabled == {cfg.calendars[j].id :
                            j \in {j \in 1..2 : ~cfg.calendars[j].enabled}}
            Shown == Held(views.events.events)
                        \cup WeekToday
                        \cup Held(views.agenda_events.events[1])
        IN  /\ views.events.source = "live"
            /\ views.week_events.source = "live"
            /\ views.agenda_events.source = "live"
            /\ Survivors(call.args[2]) \subseteq Held(views.events.events)
            /\ Survivors(call.args[3]) \subseteq WeekToday
            /\ Survivors(call.args[4]) \subseteq Held(views.agenda_events.events[1])
            /\ \A e \in Shown : e.calendar_id \notin Disabled

\* The query of the first calendar failed in all three views and the event
\* of the second calendar is in each of them.
C27_Witness ==
    /\ Done("calendar_views")
    /\ \A v \in 2..4 : call.args[v][1].error /\ call.args[v][2].items # <<>>
    /\ call.args[1].calendars[1].enabled
    /\ Len(result.value.events.events) = 1
    /\ result.value.events.events[1].calendar_id = 2
    /\ Cardinality(WeekToday) = 1
    /\ Len(result.value.agenda_events.events[1]) = 1

\* C28: in loop mode only a termination signal stops the loop, and as long
\* as none arrives every cycle that has ended, with True, with False or
\* with an exception of the loop body, is followed by the start of the next
\* cycle (up to the last cycle explored).
C28_CyclesRecur ==
    /\ [](loop_pc = "stopped" => signalled)
    /\ \A c \in 1..(MaxCycles - 1) :
          (loop_pc = "returned" /\ cycles = c)
              ~> (signalled \/ (loop_pc = "generate" /\ cycles = c + 1))

\* A cycle started after a failed cycle and the retry wait of the loop's
\* except clause.
C28_Witness ==
    /\ loop_pc = "generate"
    /\ loop_step = 0
    /\ cycles = 2
    /\ success = "False"
    /\ args_interval < 0
    /\ ~signalled

\* The request of the last call raised, or its body had another shape.
RequestFailed(c) == c.resp \in {"error", "malformed"}

\* C29: a get_travel_times call whose Mapbox request fails returns a list
\* and leaves the cache and its time as they were: the list is the one
\* stored by the last successful fetch, whatever its age and whatever the
\* destinations now asked for, and the 'Service unavailable' placeholder
\* only if no fetch has succeeded since the process started.
C29_FailureFallsBack ==
    /\ [](mapbox_cache.has_travel_times <=> cache_time # NoValue)
    /\ [](mapbox_cache.has_travel_times =>
             /\ mapbox_cache.travel_times # <<>>
             /\ \A i \in DOMAIN mapbox_cache.travel_times :
                   mapbox_cache.travel_times[i].fetched = cache_time)
    /\ [][(traffic_now' = traffic_now /\ RequestFailed(travel_call')) =>
             /\ mapbox_cache' = mapbox_cache
             /\ cache_time' = cache_time
             /\ travel_call'.value =
                   IF cache_time = NoValue THEN Fallback
                   ELSE mapbox_cache.travel_times]_vars

\* A request that failed more than a day after the last successful fetch,
\* made for another destination, was answered with the list of that fetch.
C29_Witness ==
    /\ RequestFailed(travel_call)
    /\ travel_call.age > SecondsPerDay
    /\ travel_call.age % SecondsPerDay >= CacheDuration
    /\ travel_call.value = mapbox_cache.travel_times
    /\ travel_call.value[1].destination # travel_call.destinations[1]
    /\ travel_call.value[1].fetched = traffic_now - travel_call.age

\* The last fetch_calendar_events took the live branch and no query
\* returned an event.
LiveFetchEmpty ==
    /\ events.source = "live"
    /\ events.events = <<>>

\* C30 (as stated): a live fetch that returns no event leaves the cache
\* file as it was, and once a live fetch has returned events the file
\* holds the most recent such list with the time of that fetch.
C30_AsStated ==
    /\ LiveFetchEmpty => cache_file = cache_before
    /\ last_save.done =>
          cache_file = json_document(last_save.at, last_save.events)

\* C30 (amended): a live fetch that returns no event leaves the cache file
\* as it was; the file changes only in a live fetch that returned events,
\* and it then holds the most recent such list with the time of that fetch
\* provided the write succeeded: when open raised the file is the one from
\* before, when the write raised it is unreadable.
C30_EmptyResultKeepsCache ==
    /\ LiveFetchEmpty => cache_file = cache_before
    /\ cache_file # cache_before =>
          (events.source = "live" /\ events.events # <<>>)
    /\ last_save.done =>
          /\ last_save.events # <<>>
          /\ last_save.io = "ok" =>
                cache_file = json_document(last_save.at, last_save.events)
          /\ last_save.io = "open_fails" => cache_file = cache_before
          /\ last_save.io = "write_fails" => cache_file = UnreadableFile

\* A live fetch without events came after the fetch that wrote the file,
\* and the file still holds the list and the time of that earlier fetch.
C30_Witness ==
    /\ LiveFetchEmpty
    /\ last_save.done
    /\ last_save.io = "ok"
    /\ last_save.at < clock
    /\ cache_file = json_document(last_save.at, last_save.events)
    /\ cache_file = cache_before
============================================================================
